---- MODULE Spec2Model ----
(***************************************************************************)
(* A model of the MOBA mini-game: the health/damage model of the           *)
(* damageable objects (base, monument, tower, minion, player), the         *)
(* process-wide PositionRegistry, and the BaseScene match orchestration.   *)
(*                                                                         *)
(* Numbers are integers.  Health values and damage amounts are the ones    *)
(* of the source.  Random draws (Math.random() * k) are inputs drawn from  *)
(* small sets of values below k.                                           *)
(***************************************************************************)
EXTENDS Integers, Sequences, FiniteSets, TLC

(***************************************************************************)
(* Bounds of the model (not program constants).                            *)
(***************************************************************************)
\* how many lives an object under test, or a match, may have: 1 + the
\* number of times it is revived (respawn / reset)
MaxLives == 2

\* how many minion waves are spawned, the one at mount included
MaxWaves == 2

\* how many frames a scene runs
MaxFrames == 2300

\* how many frames run while the player is under test
MaxPlayerFrames == 3

(***************************************************************************)
(* Program constants.                                                      *)
(***************************************************************************)
BaseMaxHealth == 1000
MonumentMaxHealth == 500
TowerInitialHealth == 300
MinionMaxHealth == 100
PlayerMaxHealth == 100
MinionDamage == 20

\* "no value": undefined / null of the source
Undef == "undefined"
Null == "null"

Max(a, b) == IF a >= b THEN a ELSE b
Min(a, b) == IF a <= b THEN a ELSE b
Abs(n) == IF n < 0 THEN -n ELSE n
Sign(n) == IF n < 0 THEN -1 ELSE IF n > 0 THEN 1 ELSE 0

\* Then applied to a value that is computed once
With(value, Then(_)) == CHOOSE result \in {Then(v) : v \in {value}} : TRUE

(***************************************************************************)
(* Damageable objects.  Each constructor gives the object right after its  *)
(* construction; each takeDamage is the method the constructor attaches.   *)
(* The field "deaths" counts how many times the one-shot destruction       *)
(* effect (explosion, collapse, stopDetection, onDestroy/onDeath) fired.   *)
(***************************************************************************)

\* the central objective mesh of a base, with the monument health that
\* addHealthToMonument stores in its userData
NewObjective(isEnemy) ==
  [ color      |-> IF isEnemy THEN "0xff0000" ELSE "0x0000ff",
    emissive   |-> IF isEnemy THEN "0x330000" ELSE "0x000033",
    scaleY     |-> 10,      \* scale.y in tenths: 1.0
    positionY  |-> 7,
    health      |-> MonumentMaxHealth,
    maxHealth   |-> MonumentMaxHealth,
    isDestroyed |-> FALSE,
    deaths      |-> 0 ]

NewBase(isEnemy) ==
  [ isEnemy        |-> isEnemy,
    health         |-> BaseMaxHealth,
    maxHealth      |-> BaseMaxHealth,
    isDestroyed    |-> FALSE,
    crystalVisible |-> TRUE,
    lightVisible   |-> TRUE,
    deaths         |-> 0,
    objective      |-> NewObjective(isEnemy) ]

\* base.takeDamage
BaseTakeDamage(base, amount) ==
  IF base.isDestroyed THEN base
  ELSE IF base.health - amount <= 0
       THEN [base EXCEPT !.health = 0,
                         !.isDestroyed = TRUE,
                         !.crystalVisible = FALSE,
                         !.lightVisible = FALSE,
                         !.deaths = @ + 1,
                         !.objective.color = "0x555555",
                         !.objective.emissive = "0x000000",
                         !.objective.scaleY = 5,
                         !.objective.positionY = 5]
       ELSE [base EXCEPT !.health = base.health - amount]

\* objective.userData.takeDamage, on the objective of a base
MonumentTakeDamage(base, amount) ==
  IF base.objective.isDestroyed THEN base
  ELSE IF base.objective.health - amount <= 0
       THEN [base EXCEPT !.objective.health = 0,
                         !.objective.isDestroyed = TRUE,
                         !.objective.deaths = @ + 1,
                         !.objective.color = "0x555555",
                         !.objective.emissive = "0x000000"]
       ELSE [base EXCEPT !.objective.health = base.objective.health - amount]

\* the part of resetGame that restores one base
ResetBase(base) ==
  LET restoreObjective == base.objective.positionY > 5
  IN  [base EXCEPT !.health = 1000,
                   !.isDestroyed = FALSE,
                   !.crystalVisible = TRUE,
                   !.lightVisible = TRUE,
                   !.objective.color =
                       IF restoreObjective
                       THEN (IF base.isEnemy THEN "0xff0000" ELSE "0x0000ff")
                       ELSE @,
                   !.objective.emissive =
                       IF restoreObjective
                       THEN (IF base.isEnemy THEN "0x330000" ELSE "0x000033")
                       ELSE @,
                   !.objective.scaleY = IF restoreObjective THEN 10 ELSE @,
                   !.objective.positionY = IF restoreObjective THEN 7 ELSE @]

\* createTower of Tower.ts
NewTower(team, initialHealth, shootingRange) ==
  [ team           |-> team,
    health         |-> initialHealth,
    maxHealth      |-> initialHealth,
    isDestroyed    |-> FALSE,
    shootingRange  |-> shootingRange,
    attackCooldown |-> 0,
    collapsed      |-> FALSE,
    rangeIndicatorVisible |-> TRUE,
    detectionInterval     |-> Null,
    deaths         |-> 0 ]

\* a stopDetection that leaves the interval running
TowerStopDetectionKeeps(tower) ==
  tower

\* tower.stopDetection
TowerStopDetection(tower) ==
  IF tower.detectionInterval # Null
  THEN [tower EXCEPT !.detectionInterval = Null]
  ELSE tower

\* a takeDamage without the early return for a destroyed tower
TowerTakeDamageNoGuard(tower, amount) ==
  IF tower.health - amount <= 0
  THEN TowerStopDetection(
         [tower EXCEPT !.health = 0,
                       !.isDestroyed = TRUE,
                       !.deaths = @ + 1,
                       !.collapsed = TRUE,
                       !.rangeIndicatorVisible = FALSE])
  ELSE [tower EXCEPT !.health = tower.health - amount]

\* tower.takeDamage
TowerTakeDamage(tower, amount) ==
  IF tower.isDestroyed THEN tower
  ELSE IF tower.health - amount <= 0
       THEN TowerStopDetection(
              [tower EXCEPT !.health = 0,
                            !.isDestroyed = TRUE,
                            !.deaths = @ + 1,
                            !.collapsed = TRUE,
                            !.rangeIndicatorVisible = FALSE])
       ELSE [tower EXCEPT !.health = tower.health - amount]

\* the health part of a minion (createMinion of BaseScene, Minion component)
NewMinionHealth ==
  [ health      |-> MinionMaxHealth,
    maxHealth   |-> MinionMaxHealth,
    isDestroyed |-> FALSE,
    deaths      |-> 0 ]

\* a takeDamage that does not clamp the health at 0
MinionTakeDamageNoClamp(minion, amount) ==
  IF minion.isDestroyed THEN minion
  ELSE IF minion.health - amount <= 0
       THEN [minion EXCEPT !.health = minion.health - amount,
                           !.isDestroyed = TRUE,
                           !.deaths = @ + 1]
       ELSE [minion EXCEPT !.health = minion.health - amount]

\* a takeDamage that destroys the minion only below 0
MinionTakeDamageBelowZero(minion, amount) ==
  IF minion.isDestroyed THEN minion
  ELSE IF minion.health - amount < 0
       THEN [minion EXCEPT !.health = 0,
                           !.isDestroyed = TRUE,
                           !.deaths = @ + 1]
       ELSE [minion EXCEPT !.health = minion.health - amount]

\* minion.takeDamage: the health part; the explosion it starts is the
\* destruction effect counted in deaths
MinionTakeDamage(minion, amount) ==
  IF minion.isDestroyed THEN minion
  ELSE IF minion.health - amount <= 0
       THEN [minion EXCEPT !.health = 0,
                           !.isDestroyed = TRUE,
                           !.deaths = @ + 1]
       ELSE [minion EXCEPT !.health = minion.health - amount]

\* the player state of the Player component
NewPlayer ==
  [ health      |-> PlayerMaxHealth,
    maxHealth   |-> PlayerMaxHealth,
    isDestroyed |-> FALSE,
    meshVisible |-> TRUE,
    healthBarVisible |-> TRUE,
    deaths      |-> 0 ]

\* Player takeDamage
PlayerTakeDamage(player, amount) ==
  IF player.isDestroyed THEN player
  ELSE LET newHealth == Max(0, player.health - amount)
           damaged   == [player EXCEPT !.health = newHealth]
       IN  IF damaged.health <= 0 /\ ~damaged.isDestroyed
           THEN [damaged EXCEPT !.isDestroyed = TRUE,
                                !.meshVisible = FALSE,
                                !.healthBarVisible = FALSE,
                                !.deaths = @ + 1]
           ELSE damaged

\* Player heal
PlayerHeal(player, amount) ==
  IF player.isDestroyed THEN player
  ELSE [player EXCEPT !.health = Min(player.maxHealth, player.health + amount)]

\* Player respawn
PlayerRespawn(player) ==
  IF ~player.isDestroyed THEN player
  ELSE [player EXCEPT !.isDestroyed = FALSE,
                      !.health = player.maxHealth,
                      !.meshVisible = TRUE,
                      !.healthBarVisible = TRUE]


(***************************************************************************)
(* State.                                                                  *)
(***************************************************************************)
VARIABLES
  \* one damageable object on which its methods are called in any order
  ent,          \* [kind, obj]: the object and which constructor made it
  lives,        \* 1 + the number of times ent was revived (reset/respawn)
  lastCall      \* the last method call on ent: [op, amount, prev]

healthVars == <<ent, lives, lastCall>>

VARIABLES
  \* the PositionRegistry singleton
  entities,     \* the Map: a sequence of [id, data] in insertion order
  lastQuery,    \* the last getEntitiesInRange call: [position, range, team, result]
  callerVectors,\* the Vector3 objects callers of the registry hold: name -> value
  aliases,      \* <<id, name>>: the position of entry id is the very object
                \* the caller holds under that name
  lastRegistryCall  \* the last call of the registry: [op, id, known], known
                \* telling whether id was registered when the call was made

regVars == <<entities, lastQuery, callerVectors, aliases, lastRegistryCall>>

VARIABLES
  \* the match of BaseScene
  allyBase,     \* the ally base with its objective (monument)
  enemyBase,    \* the enemy base with its objective (monument)
  gameState,    \* the React state gameState
  minionsList,  \* the minions spawned so far, in spawn order
  lastHandler   \* the handler that ran last

matchVars == <<allyBase, enemyBase, gameState, minionsList, lastHandler>>

VARIABLES
  \* the scene of BaseScene, frame by frame
  towers,       \* allyTower1, allyTower2, enemyTower1, enemyTower2
  character,    \* the player's character
  rafQueue,     \* the callbacks requestAnimationFrame holds for the next
                \* frame, in registration order; animate itself runs last
  frame,        \* the number of frames run so far
  faults,       \* what went wrong at projectile arrivals so far
  testMap       \* the TestMap component: whether it is mounted, its React
                \* state and what its tower did at its last detection

sceneVars == <<towers, character, rafQueue, frame, faults, testMap>>

VARIABLES
  \* the MinionSpawner component: its gameOver prop, its React state
  \* (nextSpawnTime, allyMinions, enemyMinions, the Minion elements of each
  \* team in minions) and the Minion components that called onDestroy
  spawner

VARIABLES
  \* the timers of the host: the intervals and the frame loop that are
  \* still scheduled, and whether the component that set them was torn down
  timers

vars == <<healthVars, regVars, matchVars, sceneVars, spawner, timers>>

(***************************************************************************)
(* The damageable objects, one at a time: any sequence of calls of the     *)
(* object's own methods.                                                   *)
(***************************************************************************)
Kinds == {"base", "monument", "tower", "minion", "player"}

\* amounts the callers pass to takeDamage: 0.2 * 20 (a minion on a
\* monument), 5 (a tower on the player), 20 (a minion), 50 (a tower on a
\* minion), and draws of Math.random() * 10
DamageAmounts == {0, 4, 5, 9, 20, 50}

\* healPlayer(20)
HealAmounts == {20}

NoCall == [op |-> "none", amount |-> 0, prev |-> Null]

NewEnt(kind, isEnemy) ==
  [ kind |-> kind,
    obj  |-> CASE kind = "base"     -> NewBase(isEnemy)
               [] kind = "monument" -> NewBase(isEnemy)
               [] kind = "tower"    ->
                    NewTower(IF isEnemy THEN "enemy" ELSE "ally",
                             TowerInitialHealth, 15)
               [] kind = "minion"   -> NewMinionHealth
               [] kind = "player"   -> NewPlayer ]

EntHealth(e) ==
  IF e.kind = "monument" THEN e.obj.objective.health ELSE e.obj.health

EntMaxHealth(e) ==
  IF e.kind = "monument" THEN e.obj.objective.maxHealth ELSE e.obj.maxHealth

EntIsDestroyed(e) ==
  IF e.kind = "monument" THEN e.obj.objective.isDestroyed ELSE e.obj.isDestroyed

EntDeaths(e) ==
  IF e.kind = "monument" THEN e.obj.objective.deaths ELSE e.obj.deaths

EntTakeDamage(e, amount) ==
  [e EXCEPT !.obj =
     CASE e.kind = "base"     -> BaseTakeDamage(@, amount)
       [] e.kind = "monument" -> MonumentTakeDamage(@, amount)
       [] e.kind = "tower"    -> TowerTakeDamage(@, amount)
       [] e.kind = "minion"   -> MinionTakeDamage(@, amount)
       [] e.kind = "player"   -> PlayerTakeDamage(@, amount)]

\* a revival: the object was destroyed and is not any more
Revived(before, after) ==
  IF EntIsDestroyed(before) /\ ~EntIsDestroyed(after) THEN 1 ELSE 0

NoQuery == [position |-> <<0, 0, 0>>, range |-> 0, team |-> Undef, result |-> << >>,
            called |-> FALSE]

NoRegistryCall == [op |-> "none", id |-> "none", known |-> FALSE]

\* no caller of the registry keeps a vector or has called it
NoCallers ==
  /\ callerVectors = << >>
  /\ aliases = {}
  /\ lastRegistryCall = NoRegistryCall

NoEnt == [kind |-> "none", obj |-> Null]

\* the state useState gives gameState
NewGameState ==
  [ allyBaseHealth  |-> 1000,
    enemyBaseHealth |-> 1000,
    gameOver        |-> FALSE,
    winner          |-> Null ]

NoFaults == [errors |-> 0, misdirected |-> 0]

\* what a tower that has not run detectEnemies yet has done
NoShot ==
  [ran |-> FALSE, fired |-> FALSE, target |-> "none", cooldown |-> 0,
   \* <<the scans since the tower last fired>>, all of which found an enemy
   since |-> << >>]

\* nothing is scheduled
NoTimers == [active |-> {}, disposed |-> FALSE]

\* MinionSpawner is not mounted
NoSpawner ==
  [ mounted |-> FALSE, gameOver |-> FALSE, nextSpawnTime |-> 0,
    allyMinions |-> 0, enemyMinions |-> 0,
    minions |-> [ally |-> 0, enemy |-> 0],
    destroyed |-> [ally |-> 0, enemy |-> 0],
    waves |-> 0 ]

\* TestMap is not mounted; useState will give these values at the mount
NoTestMap ==
  [ mounted |-> FALSE, mounts |-> 0, playerTeam |-> "blue",
    towerTeam |-> "red", towerRange |-> 15, shot |-> NoShot,
    \* showDamageFlash, the timeouts that will clear it, and whether a state
    \* or context update has asked for a render that has not run yet
    showDamageFlash |-> FALSE, flashTimeouts |-> 0, renderPending |-> FALSE ]

\* no scene is mounted
NoMatch ==
  /\ allyBase = Null
  /\ enemyBase = Null
  /\ gameState = NewGameState
  /\ minionsList = << >>
  /\ lastHandler = "none"
  /\ towers = << >>
  /\ character = Null
  /\ rafQueue = << >>
  /\ frame = 0
  /\ faults = NoFaults
  /\ testMap = NoTestMap

InitHealth ==
  /\ ent \in {NewEnt(k, isEnemy) : k \in Kinds, isEnemy \in BOOLEAN}
  /\ lives = 1
  /\ lastCall = NoCall
  /\ spawner = NoSpawner
  /\ timers = NoTimers
  /\ entities = << >>
  /\ lastQuery = NoQuery
  /\ NoCallers
  /\ NoMatch

HTakeDamage ==
  \E amount \in DamageAmounts :
    /\ ent' = EntTakeDamage(ent, amount)
    /\ lastCall' = [op |-> "takeDamage", amount |-> amount, prev |-> ent]
    /\ lives' = lives
    /\ UNCHANGED <<regVars, matchVars, sceneVars, spawner, timers>>

HHeal ==
  /\ ent.kind = "player"
  /\ \E amount \in HealAmounts :
       /\ ent' = [ent EXCEPT !.obj = PlayerHeal(@, amount)]
       /\ lastCall' = [op |-> "heal", amount |-> amount, prev |-> ent]
  /\ lives' = lives
  /\ UNCHANGED <<regVars, matchVars, sceneVars, spawner, timers>>

HRespawn ==
  /\ ent.kind = "player"
  /\ lives < MaxLives
  /\ ent' = [ent EXCEPT !.obj = PlayerRespawn(@)]
  /\ lastCall' = [op |-> "respawn", amount |-> 0, prev |-> ent]
  /\ lives' = lives + Revived(ent, ent')
  /\ UNCHANGED <<regVars, matchVars, sceneVars, spawner, timers>>

HReset ==
  /\ ent.kind \in {"base", "monument"}
  /\ lives < MaxLives
  /\ ent' = [ent EXCEPT !.obj = ResetBase(@)]
  /\ lastCall' = [op |-> "reset", amount |-> 0, prev |-> ent]
  /\ lives' = lives + Revived(ent, ent')
  /\ UNCHANGED <<regVars, matchVars, sceneVars, spawner, timers>>

NextHealth == HTakeDamage \/ HHeal \/ HRespawn \/ HReset

SpecHealth == InitHealth /\ [][NextHealth]_vars

(***************************************************************************)
(* C1: for every damageable object and every sequence of takeDamage calls, *)
(* 0 <= health <= maxHealth holds after every call.                        *)
(***************************************************************************)
DamageClamp ==
  /\ 0 <= EntHealth(ent)
  /\ EntHealth(ent) <= EntMaxHealth(ent)

\* a takeDamage call whose amount exceeded the health left was clamped to 0
DamageClampWitness ==
  /\ lastCall.op = "takeDamage"
  /\ ~EntIsDestroyed(lastCall.prev)
  /\ lastCall.amount > EntHealth(lastCall.prev)
  /\ EntHealth(ent) = 0

(***************************************************************************)
(* C3: takeDamage on an already destroyed object changes neither its       *)
(* health nor anything else of it and fires no destruction effect; over    *)
(* one life the destruction effect fires at most once (so the number of    *)
(* effects fired never exceeds the number of lives).                       *)
(***************************************************************************)
IdempotentDestruction ==
  /\ EntDeaths(ent) <= lives
  /\ (lastCall.op = "takeDamage" /\ EntIsDestroyed(lastCall.prev))
       => ent = lastCall.prev

\* a positive amount of damage was dealt to a destroyed object
IdempotentDestructionWitness ==
  /\ lastCall.op = "takeDamage"
  /\ EntIsDestroyed(lastCall.prev)
  /\ lastCall.amount > 0


(***************************************************************************)
(* The PositionRegistry.                                                   *)
(***************************************************************************)
Ids == {"e1", "e2"}
Teams == {"red", "blue"}
EntityTypes == {"player", "tower", "minion"}

\* positions <<x, y, z>> given to the registry, and the ranges asked for
RegPositions == { <<3, 0, 4>>, <<3, 4, 4>> }
QueryPositions == { <<0, 0, 0>> }
RegRanges == {4, 5}
\* health?: number; an entity that reports no health carries NoHealth
NoHealth == -1
RegHealths == {NoHealth, 1, 5}

\* entities are registered alive; updateMetadata reports their death
RegData ==
  [ position : RegPositions, team : Teams, type : EntityTypes,
    health : RegHealths, isAlive : {TRUE} ]

\* the partial records given to updateMetadata
RegMetadata ==
  [ isAlive : BOOLEAN ] \cup [ health : RegHealths \ {NoHealth} ] \cup [ team : Teams ]

IndexOf(seq, id) ==
  IF \E i \in DOMAIN seq : seq[i].id = id
  THEN CHOOSE i \in DOMAIN seq : seq[i].id = id
  ELSE 0

\* Map.set: an existing key keeps its place, a new key goes last
MapSet(seq, id, data) ==
  IF IndexOf(seq, id) # 0
  THEN [seq EXCEPT ![IndexOf(seq, id)].data = data]
  ELSE Append(seq, [id |-> id, data |-> data])

\* Map.delete
MapDelete(seq, id) ==
  SelectSeq(seq, LAMBDA e : e.id # id)

\* Object.assign(entity, metadata)
ObjectAssign(entity, metadata) ==
  [f \in DOMAIN entity |->
     IF f \in DOMAIN metadata THEN metadata[f] ELSE entity[f]]

\* the square of Vector3.distanceTo
DistanceToSquared(a, b) ==
    (a[1] - b[1]) * (a[1] - b[1])
  + (a[2] - b[2]) * (a[2] - b[2])
  + (a[3] - b[3]) * (a[3] - b[3])

\* a range test on the distance in the XZ plane
WithinRangeXZ(position, other, range) ==
    (position[1] - other[1]) * (position[1] - other[1])
  + (position[3] - other[3]) * (position[3] - other[3]) <= range * range

\* position.distanceTo(entity.position) <= range, for a range >= 0
WithinRange(position, other, range) ==
  DistanceToSquared(position, other) <= range * range

\* the filter callback of getEntitiesInRange
RangeFilter(entity, position, range, team) ==
  IF ~entity.isAlive THEN FALSE
  ELSE IF team # Undef /\ entity.team = team THEN FALSE
  ELSE WithinRange(position, entity.position, range)

\* the sort comparator of getEntitiesInRange
SortCompare(a, b) ==
  IF a.type # b.type
  THEN (IF a.type = "player" THEN -1 ELSE IF b.type = "player" THEN 1 ELSE 0)
  ELSE IF a.health # NoHealth /\ b.health # NoHealth
       THEN a.health - b.health
       ELSE 0

IndexPermutations(n) ==
  {p \in [1..n -> 1..n] : \A i, j \in 1..n : i # j => p[i] # p[j]}

\* the comparator is a consistent comparator for the elements of seq
ConsistentComparator(seq) ==
  \A i, j, k \in DOMAIN seq :
    LET a == seq[i].data
        b == seq[j].data
        c == seq[k].data
    IN  /\ Sign(SortCompare(a, b)) = -Sign(SortCompare(b, a))
        /\ (SortCompare(a, b) = 0 /\ SortCompare(b, c) = 0)
             => SortCompare(a, c) = 0
        /\ (SortCompare(a, b) < 0 /\ SortCompare(b, c) < 0)
             => SortCompare(a, c) < 0

\* Array.prototype.sort with the comparator: stable for a consistent
\* comparator; for an inconsistent one the order is implementation-defined
ArraySort(seq) ==
  LET n == Len(seq)
      stable(p) ==
        \A i, j \in 1..n :
          i < j => \/ SortCompare(seq[p[i]].data, seq[p[j]].data) < 0
                   \/ /\ SortCompare(seq[p[i]].data, seq[p[j]].data) = 0
                      /\ p[i] < p[j]
  IN  { [i \in 1..n |-> seq[p[i]]] :
          p \in {q \in IndexPermutations(n) :
                   ConsistentComparator(seq) => stable(q)} }

\* getEntitiesInRange: the results the call can return
GetEntitiesInRange(position, range, team) ==
  ArraySort(SelectSeq(entities,
              LAMBDA e : RangeFilter(e.data, position, range, team)))

InitReg ==
  /\ entities = << >>
  /\ lastQuery = NoQuery
  /\ NoCallers
  /\ ent = NoEnt
  /\ lives = 1
  /\ lastCall = NoCall
  /\ spawner = NoSpawner
  /\ timers = NoTimers
  /\ NoMatch

\* the entries whose position is the same object as that of entry id
RegistryCall(op, id) ==
  [op |-> op, id |-> id, known |-> IndexOf(entities, id) # 0]

\* updateMetadata(id, metadata) on the Map
WithMetadataUpsert(seq, id, metadata) ==
  IF IndexOf(seq, id) # 0
  THEN [seq EXCEPT ![IndexOf(seq, id)].data = ObjectAssign(@, metadata)]
  ELSE Append(seq, [id |-> id, data |-> metadata])

WithMetadata(seq, id, metadata) ==
  IF IndexOf(seq, id) # 0
  THEN [seq EXCEPT ![IndexOf(seq, id)].data = ObjectAssign(@, metadata)]
  ELSE seq

SharingPosition(id) ==
  {id} \cup {other \in Ids : \E name \in DOMAIN callerVectors :
                                <<id, name>> \in aliases /\ <<other, name>> \in aliases}

\* vector.copy(position) on the position object of entry id: every holder of
\* that object sees the new value
CopyInto(id, position) ==
  /\ entities' = [i \in DOMAIN entities |->
                    IF entities[i].id \in SharingPosition(id)
                    THEN [entities[i] EXCEPT !.data.position = position]
                    ELSE entities[i]]
  /\ callerVectors' = [name \in DOMAIN callerVectors |->
                         IF <<id, name>> \in aliases THEN position
                         ELSE callerVectors[name]]

\* register(id, data): the entry gets data.position.clone(), a new object
RegisterCall(id, data) ==
  /\ entities' = MapSet(entities, id, data)
  /\ aliases' = {a \in aliases : a[1] # id}
  /\ lastQuery' = NoQuery
  /\ lastRegistryCall' = RegistryCall("register", id)
  /\ UNCHANGED <<callerVectors, healthVars, spawner, timers, matchVars, sceneVars>>

Register ==
  \E id \in Ids, data \in RegData : RegisterCall(id, data)

\* updatePosition(id, position)
UpdatePosition ==
  \E id \in Ids, position \in RegPositions :
    /\ IF IndexOf(entities, id) # 0
       THEN CopyInto(id, position)
       ELSE UNCHANGED <<entities, callerVectors>>
    /\ lastQuery' = NoQuery
    /\ lastRegistryCall' = RegistryCall("updatePosition", id)
    /\ UNCHANGED <<aliases, healthVars, spawner, timers, matchVars, sceneVars>>

\* updateMetadata(id, metadata)
UpdateMetadataCall(id, metadata) ==
  /\ entities' = WithMetadata(entities, id, metadata)
  /\ lastQuery' = NoQuery
  /\ lastRegistryCall' = RegistryCall("updateMetadata", id)
  /\ UNCHANGED <<callerVectors, aliases, healthVars, spawner, timers, matchVars, sceneVars>>

UpdateMetadata ==
  \E id \in Ids, metadata \in RegMetadata : UpdateMetadataCall(id, metadata)

\* remove(id)
Remove ==
  \E id \in Ids :
    /\ entities' = MapDelete(entities, id)
    /\ aliases' = {a \in aliases : a[1] # id}
    /\ lastQuery' = NoQuery
    /\ lastRegistryCall' = RegistryCall("remove", id)
    /\ UNCHANGED <<callerVectors, healthVars, spawner, timers, matchVars, sceneVars>>

\* a call of getEntitiesInRange; its result is kept until the next call of
\* the registry
Query ==
  \E position \in QueryPositions, range \in RegRanges, team \in Teams \cup {Undef} :
    \E result \in GetEntitiesInRange(position, range, team) :
      /\ lastQuery' = [position |-> position, range |-> range,
                       team |-> team, result |-> result,
                       called |-> TRUE]
      /\ UNCHANGED <<entities, callerVectors, aliases>>
      /\ lastRegistryCall' = [op |-> "getEntitiesInRange", id |-> "none", known |-> FALSE]
      /\ UNCHANGED <<healthVars, spawner, timers, matchVars, sceneVars>>

NextReg == Register \/ UpdatePosition \/ UpdateMetadata \/ Remove \/ Query

SpecReg == InitReg /\ [][NextReg]_vars


\* the square of the distance in the XZ plane
XZDistanceSquared(a, b) ==
  (a[1] - b[1]) * (a[1] - b[1]) + (a[3] - b[3]) * (a[3] - b[3])

ResultIds(q) == {q.result[i].id : i \in DOMAIN q.result}

\* players and non-players are the two priorities of a result list
Priority(data) == IF data.type = "player" THEN 0 ELSE 1

(***************************************************************************)
(* C9: a range query returns exactly the registered entities that are      *)
(* alive, whose distance to the query origin in the XZ plane is at most    *)
(* the radius, and whose team is not the excluded team.                    *)
(***************************************************************************)
QueryReturnsExactlyXZ ==
  lastQuery.called =>
    ResultIds(lastQuery) =
      { entities[i].id : i \in
          { j \in DOMAIN entities :
              /\ entities[j].data.isAlive
              /\ XZDistanceSquared(lastQuery.position, entities[j].data.position)
                   <= lastQuery.range * lastQuery.range
              /\ (lastQuery.team = Undef \/ entities[j].data.team # lastQuery.team) } }

(***************************************************************************)
(* C10: in every list a range query returns, players come before           *)
(* non-players, and among entries of equal priority that both report a     *)
(* health the health is ascending.                                         *)
(***************************************************************************)
PlayersFirstThenHealthAscending ==
  lastQuery.called =>
    \A i, j \in DOMAIN lastQuery.result :
      i < j =>
        LET a == lastQuery.result[i].data
            b == lastQuery.result[j].data
        IN  /\ Priority(a) <= Priority(b)
            /\ (Priority(a) = Priority(b) /\ a.health # NoHealth /\ b.health # NoHealth)
                 => a.health <= b.health


(***************************************************************************)
(* The match of BaseScene: the two bases, the key handlers that damage     *)
(* them, the wave interval and the "Play Again" button.                    *)
(***************************************************************************)
LaneNames == <<"top", "mid", "bottom">>
MinionsPerLane == 4

\* Math.random() * 10 of testDamage and Math.random() * 20 of
\* testMonumentDamage
BaseDraws == {9}
MonumentDraws == {19}

(***************************************************************************)
(* The map.  Bases, towers, the character's start and the spawn points of  *)
(* the mid lane lie on the diagonal from the ally base to the enemy base;  *)
(* the ally spawn of the bottom lane and the enemy spawn of the top lane   *)
(* are the same points as those of the mid lane.  A place on the diagonal  *)
(* is its signed distance s from the map centre (positive towards the      *)
(* enemy base) and its height y.  Lengths are in units of 0.025: a minion  *)
(* (speed 0.05) makes 2 units a frame.  The minions of the two spawn       *)
(* points off the diagonal walk their own straight line to the base they   *)
(* target; s is then the distance walked.  They are farther than every     *)
(* range from everything on the diagonal for the first 2400 frames, which  *)
(* MaxFrames stays below.                                                  *)
(***************************************************************************)
MinionSpeed == 2            \* 0.05
MinionAttackRange == 200    \* 5
MinionAttackCooldown == 60
BaseAggroExtra == 600       \* 15
TowerShootingRange == 600   \* 15
TowerDamage == 50
TowerAttackCooldown == 45
TowerOnPlayerDamage == 5
TowerOnPlayerCooldown == 60
BaseCentre == 4101          \* LANE_SQUARE_SIZE / 2 * sqrt(2) = 102.53
SpawnPoint == 3818          \* (LANE_SQUARE_SIZE / 2 - 5) * sqrt(2) = 95.46
SidePathLength == 5604      \* from a spawn point off the diagonal to the base
OuterTowerDistance == 2400  \* 60
InnerTowerDistance == 840   \* 21
BaseRadius == 720           \* 18
TransitionZone == 200       \* 5
BaseHeight == 130           \* 3.25
FarAway == 40000

\* allyTower1, allyTower2, enemyTower1, enemyTower2 on the diagonal
TowerPositions ==
  << -OuterTowerDistance, -InnerTowerDistance, OuterTowerDistance, InnerTowerDistance >>

\* the number of requestAnimationFrame callbacks after which progress >= 1:
\* 0.1 added 11 times (ten times gives 0.9999999999999999), 0.05 added 20
\* times; an explosion scale reaches 2 after 0.1 is added 10 times
MinionShotSteps == 11
TowerShotSteps == 20
ExplosionSteps == 10

\* references to scene objects, as attackTarget holds them
NoTarget == [kind |-> "none", id |-> 0]
MinionRef(i) == [kind |-> "minion", id |-> i]
TowerRef(i) == [kind |-> "tower", id |-> i]
BaseRef(team) == [kind |-> "base", id |-> IF team = "ally" THEN 1 ELSE 2]
CharacterRef == [kind |-> "character", id |-> 0]

\* the offsets (Math.random() - 0.5) * 2 of the 24 minions of a wave, along
\* their paths: none, or staggered by a quarter of a unit
NoJitter == [k \in 1..(3 * 2 * MinionsPerLane) |-> 0]
StaggeredJitter == [k \in 1..(3 * 2 * MinionsPerLane) |-> 10 * ((k - 1) % MinionsPerLane)]
JitterVectors == {NoJitter, StaggeredJitter}

OnDiagonal(team, lane) ==
  \/ lane = "mid"
  \/ team = "ally" /\ lane = "bottom"
  \/ team = "enemy" /\ lane = "top"

\* createMinion(spawnPos, team)
NewMinion(team, lane, offset) ==
  [ team           |-> team,
    lane           |-> lane,
    diagonal       |-> OnDiagonal(team, lane),
    s              |-> IF OnDiagonal(team, lane)
                       THEN (IF team = "ally" THEN -SpawnPoint ELSE SpawnPoint) + offset
                       ELSE offset,
    y              |-> 0,
    targetPosition |-> IF OnDiagonal(team, lane)
                       THEN (IF team = "ally" THEN BaseCentre ELSE -BaseCentre)
                       ELSE SidePathLength,
    health         |-> NewMinionHealth.health,
    maxHealth      |-> NewMinionHealth.maxHealth,
    isDestroyed    |-> NewMinionHealth.isDestroyed,
    deaths         |-> NewMinionHealth.deaths,
    visible        |-> TRUE,
    attackTarget   |-> NoTarget,
    attackCooldown |-> 0,
    \* the projectiles that reached the minion while it was not destroyed
    towerHits      |-> 0,
    minionHits     |-> 0 ]

\* spawnMinionWave: for each lane 4 allies, then 4 enemies, pushed onto
\* minionsList
SpawnedWave(list, jitter) ==
  list \o
  [k \in 1..(3 * 2 * MinionsPerLane) |->
     LET lane  == LaneNames[((k - 1) \div (2 * MinionsPerLane)) + 1]
         inLane == ((k - 1) % (2 * MinionsPerLane)) + 1
     IN  NewMinion(IF inLane <= MinionsPerLane THEN "ally" ELSE "enemy",
                   lane, jitter[k])]

\* the character object of the mount effect
NewCharacter ==
  [ s              |-> -SpawnPoint,
    y              |-> 0,
    direction      |-> 0,
    targetPosition |-> << >>,     \* null, or <<the point clicked>>
    sprint         |-> FALSE,
    health         |-> 100,
    maxHealth      |-> 100,
    visible        |-> TRUE,     \* model.visible
    respawnPending |-> FALSE,    \* the setTimeout that respawns is pending
    \* playerHealth.respawnTimer: undefined, or <<the seconds displayed>>
    respawnTimer   |-> << >>,
    \* the local respawnTimer of each updateRespawnTimer that a timeout
    \* is about to call
    countdowns     |-> << >> ]

\* createTower(pos, isEnemy, 300) for the four towers
NewTowers ==
  [i \in 1..4 |->
     NewTower(IF i <= 2 THEN "ally" ELSE "enemy", TowerInitialHealth,
              TowerShootingRange)]

WaveSeconds == 30           \* the seconds between two waves

\* what the mount effect of BaseScene schedules: the wave interval, the
\* countdown interval and the frame loop; nextSpawnTime is the countdown
SceneTimers ==
  [active |-> {"spawnInterval", "timerInterval", "animate"},
   disposed |-> FALSE,
   nextSpawnTime |-> WaveSeconds]

\* the mount effect: both bases are created and the first wave is spawned
Mounted(jitters) ==
  /\ allyBase = NewBase(FALSE)
  /\ enemyBase = NewBase(TRUE)
  /\ gameState = NewGameState
  /\ \E jitter \in jitters : minionsList = SpawnedWave(<< >>, jitter)
  /\ lastHandler = "mount"
  /\ towers = NewTowers
  /\ character = NewCharacter
  /\ rafQueue = << >>
  /\ frame = 0
  /\ faults = NoFaults
  /\ testMap = NoTestMap
  /\ ent = NoEnt
  /\ lives = 1
  /\ lastCall = NoCall
  /\ spawner = NoSpawner
  /\ timers = SceneTimers
  /\ entities = << >>
  /\ lastQuery = NoQuery
  /\ NoCallers

\* a match whose first wave spawned without offsets
InitMatch == Mounted({NoJitter})

\* the game-over check at the end of testDamage
GameOverCheck(state, ally, enemy) ==
  IF ally.isDestroyed
  THEN [state EXCEPT !.gameOver = TRUE, !.winner = "enemy"]
  ELSE IF enemy.isDestroyed
       THEN [state EXCEPT !.gameOver = TRUE, !.winner = "ally"]
       ELSE state

\* testDamage (key d): allySide is Math.random() > 0.5
TestDamage ==
  \E allySide \in BOOLEAN, amount \in BaseDraws :
    LET ally  == IF allySide THEN BaseTakeDamage(allyBase, amount) ELSE allyBase
        enemy == IF allySide THEN enemyBase ELSE BaseTakeDamage(enemyBase, amount)
        shown == IF allySide
                 THEN [gameState EXCEPT !.allyBaseHealth = ally.health]
                 ELSE [gameState EXCEPT !.enemyBaseHealth = enemy.health]
    IN  /\ allyBase' = ally
        /\ enemyBase' = enemy
        /\ gameState' = GameOverCheck(shown, ally, enemy)
        /\ lastHandler' = "key"
        /\ UNCHANGED <<minionsList, healthVars, spawner, timers, regVars, sceneVars>>

\* testMonumentDamage (key m): both monuments, one draw each
TestMonumentDamage ==
  \E amountAlly \in MonumentDraws, amountEnemy \in MonumentDraws :
    /\ allyBase' = MonumentTakeDamage(allyBase, amountAlly)
    /\ enemyBase' = MonumentTakeDamage(enemyBase, amountEnemy)
    /\ lastHandler' = "key"
    /\ UNCHANGED <<gameState, minionsList, healthVars, spawner, timers, regVars, sceneVars>>

\* the spawn interval fires: spawnMinionWave
SpawnMinionWave ==
  /\ Len(minionsList) < MaxWaves * (3 * 2 * MinionsPerLane)
  /\ \E jitter \in JitterVectors : minionsList' = SpawnedWave(minionsList, jitter)
  /\ timers' = [timers EXCEPT !.nextSpawnTime = WaveSeconds]
  /\ lastHandler' = "interval"
  /\ UNCHANGED <<allyBase, enemyBase, gameState, healthVars, spawner, regVars, sceneVars>>

\* resetGame: the click handler of the button that is rendered while
\* gameState.gameOver
ResetGame ==
  /\ gameState.gameOver
  /\ lives < MaxLives
  /\ gameState' = NewGameState
  /\ allyBase' = ResetBase(allyBase)
  /\ enemyBase' = ResetBase(enemyBase)
  /\ lastHandler' = "resetGame"
  /\ lives' = lives + 1
  /\ UNCHANGED <<minionsList, ent, lastCall, spawner, timers, regVars, sceneVars>>

\* a match played with the key d, the wave interval and the reset button
NextMatch == TestDamage \/ SpawnMinionWave \/ ResetGame

SpecMatch == InitMatch /\ [][NextMatch]_vars

\* a match played with the keys d and m and the reset button
NextMonument == TestDamage \/ TestMonumentDamage \/ ResetGame

SpecMonument == InitMatch /\ [][NextMonument]_vars


\* the visual properties of a base that its destruction changes
BaseVisuals(base) ==
  [ color          |-> base.objective.color,
    emissive       |-> base.objective.emissive,
    scaleY         |-> base.objective.scaleY,
    positionY      |-> base.objective.positionY,
    crystalVisible |-> base.crystalVisible,
    lightVisible   |-> base.lightVisible ]

(***************************************************************************)
(* C5: when the monument of a side is destroyed, whatever destroyed it,    *)
(* the match is over and the winner is the opposing team.  Stated for the  *)
(* first life of the match, where nothing clears gameOver: a destroyed     *)
(* monument then means an ended match won by the other side.               *)
(***************************************************************************)
MonumentDestroyedEndsMatch ==
  lives = 1 =>
    /\ allyBase.objective.isDestroyed =>
         /\ gameState.gameOver
         /\ (gameState.winner = "enemy" \/ enemyBase.objective.isDestroyed)
    /\ enemyBase.objective.isDestroyed =>
         /\ gameState.gameOver
         /\ (gameState.winner = "ally" \/ allyBase.objective.isDestroyed)

(***************************************************************************)
(* C6: right after resetGame both monuments have health = maxHealth and    *)
(* are not destroyed, whatever damage they took before.                    *)
(***************************************************************************)
ResetRestoresMonuments ==
  lastHandler = "resetGame" =>
    \A base \in {allyBase, enemyBase} :
      /\ base.objective.health = base.objective.maxHealth
      /\ ~base.objective.isDestroyed

(***************************************************************************)
(* C7: right after a match reset no minion of the previous match remains:  *)
(* the number of non-player agents is zero.                                *)
(***************************************************************************)
ResetLeavesNoMinion ==
  lastHandler = "resetGame" => Len(minionsList) = 0

(***************************************************************************)
(* C8: after a base was destroyed and the match reset, every visual        *)
(* property the destruction changed (objective colour, emissive, scale,    *)
(* height; crystal and light visibility) has its value of before the       *)
(* damage.                                                                 *)
(***************************************************************************)
ResetRestoresVisuals ==
  lastHandler = "resetGame" =>
    /\ BaseVisuals(allyBase) = BaseVisuals(NewBase(FALSE))
    /\ BaseVisuals(enemyBase) = BaseVisuals(NewBase(TRUE))


(***************************************************************************)
(* The scene frame by frame.  A scene record holds what the callbacks and  *)
(* animate read and write while a frame runs: minions, towers, ally and    *)
(* enemy base, character, the callbacks registered for the next frame,     *)
(* and the faults seen.                                                    *)
(***************************************************************************)
CharacterSpeed == 6         \* 0.15
SprintSpeed == 9            \* 0.15 * 1.5
StopDistance == 4           \* 0.1
ObjectiveCollision == 140   \* objectiveRadius 3 + characterRadius 0.5
PlayableHalf == 4950        \* PLAYABLE_AREA / 2 * sqrt(2)
HealKeyAmount == 20
PlayerDraws == {9}          \* Math.random() * 10 of testPlayerDamage

\* where a referenced object is: Object3D.position
PlaceOf(sc, ref) ==
  CASE ref.kind = "minion" ->
         [s |-> sc.minions[ref.id].s, y |-> sc.minions[ref.id].y,
          diagonal |-> sc.minions[ref.id].diagonal]
    [] ref.kind = "tower" ->
         [s |-> TowerPositions[ref.id], y |-> 0, diagonal |-> TRUE]
    [] ref.kind = "base" ->
         \* createBase places the children of the group, never the group
         [s |-> 0, y |-> 0, diagonal |-> TRUE]
    [] ref.kind = "character" ->
         [s |-> sc.character.s, y |-> sc.character.y, diagonal |-> TRUE]

\* the square of Vector3.distanceTo
SceneDistanceSquared(p, q) ==
  IF p.diagonal /\ q.diagonal
  THEN (p.s - q.s) * (p.s - q.s) + (p.y - q.y) * (p.y - q.y)
  ELSE FarAway * FarAway

\* target.isDestroyed || !target.visible, as minion.update reads them
TargetGone(sc, ref) ==
  CASE ref.kind = "minion" ->
         sc.minions[ref.id].isDestroyed \/ ~sc.minions[ref.id].visible
    [] ref.kind = "tower" -> sc.towers[ref.id].isDestroyed
    [] ref.kind = "base" ->
         IF ref.id = 1 THEN sc.ally.isDestroyed ELSE sc.enemy.isDestroyed
    [] ref.kind = "character" -> ~sc.character.visible

RefIsDestroyed(sc, ref) ==
  CASE ref.kind = "minion" -> sc.minions[ref.id].isDestroyed
    [] ref.kind = "tower" -> sc.towers[ref.id].isDestroyed
    [] ref.kind = "base" ->
         IF ref.id = 1 THEN sc.ally.isDestroyed ELSE sc.enemy.isDestroyed
    [] OTHER -> FALSE

\* the endPos of a callback that is not a projectile
NoPlace == [s |-> 0, y |-> 0, diagonal |-> FALSE]

\* a callback given to requestAnimationFrame: animateProjectile of the
\* projectile a shooter fired at a target, with the attackCooldown the
\* shooter had when it fired
Shot(kind, shooter, target, cooldown) ==
  [kind |-> kind, shooter |-> shooter, target |-> target, steps |-> 1,
   cooldown |-> cooldown, endPos |-> NoPlace]

\* const endPos = target.position.clone(): the place the target is at when
\* the projectile is fired
Aimed(sc, shot) ==
  [shot EXCEPT !.endPos = PlaceOf(sc, shot.target)]

Callback(kind, shooter, target) ==
  Shot(kind, shooter, target, 0)

\* the projectiles that reach a minion before it is destroyed are counted:
\* those of towers deal TowerDamage, those of minions MinionDamage
CountHit(minion, amount) ==
  IF minion.isDestroyed THEN minion
  ELSE IF amount = TowerDamage
       THEN [minion EXCEPT !.towerHits = @ + 1]
       ELSE [minion EXCEPT !.minionHits = @ + 1]

\* ref.takeDamage(amount), for a ref that has the method; a minion that
\* dies starts its explosion
RefTakeDamage(sc, ref, amount) ==
  CASE ref.kind = "minion" ->
         LET hit == MinionTakeDamage(CountHit(sc.minions[ref.id], amount), amount)
         IN  [sc EXCEPT !.minions[ref.id] = hit,
                        !.queue = IF hit.deaths > sc.minions[ref.id].deaths
                                  THEN Append(@, Callback("minionExplosion", ref.id, NoTarget))
                                  ELSE @]
    [] ref.kind = "tower" ->
         [sc EXCEPT !.towers[ref.id] = TowerTakeDamage(@, amount)]
    [] ref.kind = "base" ->
         IF ref.id = 1
         THEN [sc EXCEPT !.ally = BaseTakeDamage(@, amount)]
         ELSE [sc EXCEPT !.enemy = BaseTakeDamage(@, amount)]

\* character.health -= amount; if (character.health < 0) character.health = 0
CharacterLoseHealth(c, amount) ==
  [c EXCEPT !.health = IF c.health - amount < 0 THEN 0 ELSE c.health - amount]

StepsNeeded(kind) ==
  CASE kind \in {"minionShot", "minionShotPlayer"} -> MinionShotSteps
    [] kind \in {"towerShot", "towerShotPlayer"} -> TowerShotSteps
    [] kind = "minionExplosion" -> ExplosionSteps

\* a projectile of a minion arrives:
\* (minion.attackTarget as any).takeDamage(minion.damage), with the
\* attackTarget the minion has now
MinionShotArrives(sc, cb) ==
  LET now == sc.minions[cb.shooter].attackTarget
  IN  IF now.kind \in {"none", "character"}
      THEN \* TypeError: attackTarget is null, or has no takeDamage
           [sc EXCEPT !.faults.errors = @ + 1]
      ELSE [RefTakeDamage(sc, now, MinionDamage)
              EXCEPT !.faults.misdirected =
                       IF now # cb.target /\ ~RefIsDestroyed(sc, now)
                       THEN @ + 1 ELSE @]

\* one callback of the frame: animateProjectile(progress) or
\* expandExplosion
RunCallback(sc, cb) ==
  IF cb.steps < StepsNeeded(cb.kind)
  THEN [sc EXCEPT !.queue = Append(@, [cb EXCEPT !.steps = @ + 1])]
  ELSE CASE cb.kind = "minionShot" -> MinionShotArrives(sc, cb)
         [] cb.kind = "towerShot" -> RefTakeDamage(sc, cb.target, TowerDamage)
         [] cb.kind = "towerShotPlayer" ->
              [sc EXCEPT !.character = CharacterLoseHealth(@, TowerOnPlayerDamage)]
         [] cb.kind = "minionShotPlayer" ->
              [sc EXCEPT !.character = CharacterLoseHealth(@, MinionDamage)]
         [] cb.kind = "minionExplosion" ->
              [sc EXCEPT !.minions[cb.shooter].visible = FALSE]

\* the callbacks of a frame run in registration order
RECURSIVE RunCallbacks(_, _, _)
RunCallbacks(sc, queue, i) ==
  IF i > Len(queue) THEN sc
  ELSE With(RunCallback(sc, queue[i]),
            LAMBDA next : RunCallbacks(next, queue, i + 1))


\* the height of the ground from the distances to the two base centres
GroundHeight(distToAllyBase, distToEnemyBase) ==
  IF distToAllyBase < BaseRadius - TransitionZone THEN BaseHeight
  ELSE IF distToAllyBase < BaseRadius
       THEN (BaseHeight * (BaseRadius - distToAllyBase)) \div TransitionZone
  ELSE IF distToEnemyBase < BaseRadius - TransitionZone THEN BaseHeight
  ELSE IF distToEnemyBase < BaseRadius
       THEN (BaseHeight * (BaseRadius - distToEnemyBase)) \div TransitionZone
  ELSE 0

\* checkTowerDamageToPlayer
CheckTowerDamageToPlayer(sc) ==
  IF sc.character.health <= 0 THEN sc
  ELSE
    LET here == PlaceOf(sc, CharacterRef)
        towerFires(i) ==
          /\ ~sc.towers[i].isDestroyed
          /\ SceneDistanceSquared(here, PlaceOf(sc, TowerRef(i)))
               < sc.towers[i].shootingRange * sc.towers[i].shootingRange
        minionTargets(i) ==
          /\ ~sc.minions[i].isDestroyed
          /\ sc.minions[i].team = "enemy"
          /\ SceneDistanceSquared(here, PlaceOf(sc, MinionRef(i)))
               < MinionAttackRange * MinionAttackRange
          /\ sc.minions[i].attackTarget = NoTarget
        minionFires(i) == minionTargets(i) /\ sc.minions[i].attackCooldown <= 0
        firing == SelectSeq(<<3, 4>>, towerFires)
        towerShots ==
          [k \in DOMAIN firing |->
             Aimed(sc, Shot("towerShotPlayer", firing[k], CharacterRef,
                            sc.towers[firing[k]].attackCooldown))]
        shooters == SelectSeq([i \in DOMAIN sc.minions |-> i], minionFires)
        minionShots ==
          [k \in DOMAIN shooters |->
             Aimed(sc, Shot("minionShotPlayer", shooters[k], CharacterRef,
                            sc.minions[shooters[k]].attackCooldown))]
    IN  [sc EXCEPT
           !.towers = [i \in DOMAIN sc.towers |->
                         IF i \in 3..4 /\ towerFires(i)
                         THEN [sc.towers[i] EXCEPT !.attackCooldown = TowerOnPlayerCooldown]
                         ELSE sc.towers[i]],
           !.minions = [i \in DOMAIN sc.minions |->
                          IF minionTargets(i)
                          THEN [sc.minions[i] EXCEPT
                                  !.attackTarget = CharacterRef,
                                  !.attackCooldown =
                                     IF minionFires(i) THEN MinionAttackCooldown ELSE @]
                          ELSE sc.minions[i]],
           !.queue = @ \o towerShots \o minionShots]

\* updateMovement
UpdateMovement(sc) ==
  LET c == sc.character
      aimed ==
        IF c.targetPosition = << >> THEN c
        ELSE IF Abs(c.targetPosition[1] - c.s) < StopDistance
             THEN [c EXCEPT !.targetPosition = << >>, !.direction = 0]
             ELSE [c EXCEPT !.direction = Sign(c.targetPosition[1] - c.s)]
      moveSpeed == IF c.sprint THEN SprintSpeed ELSE CharacterSpeed
      newS == aimed.s + aimed.direction * moveSpeed
      collision ==
        \/ Abs(newS + BaseCentre) < ObjectiveCollision
        \/ Abs(newS - BaseCentre) < ObjectiveCollision
      moved ==
        IF ~collision
        THEN [aimed EXCEPT !.s = Max(-PlayableHalf, Min(PlayableHalf, newS))]
        ELSE [aimed EXCEPT !.targetPosition = << >>, !.direction = 0]
      raised ==
        [moved EXCEPT !.y = GroundHeight(Abs(newS + BaseCentre), Abs(newS - BaseCentre))]
      bounded ==
        IF Abs(raised.s) = PlayableHalf
        THEN [raised EXCEPT !.targetPosition = << >>, !.direction = 0]
        ELSE raised
  IN  With([sc EXCEPT !.character = bounded], CheckTowerDamageToPlayer)

\* the closest living minion of a team within a range of a place, the first
\* of the list among equally close ones; 0 if there is none
ClosestMinion(sc, place, team, range) ==
  LET d(i) == SceneDistanceSquared(place, PlaceOf(sc, MinionRef(i)))
      near == {i \in DOMAIN sc.minions :
                 /\ ~sc.minions[i].isDestroyed
                 /\ sc.minions[i].team = team
                 /\ d(i) <= range * range}
  IN  IF near = {} THEN 0
      ELSE CHOOSE i \in near :
             \A j \in near : d(i) < d(j) \/ (d(i) = d(j) /\ i <= j)

\* updateTowerAttacks, one tower: fire at the closest minion of the other
\* team
TowerAttack(sc, i) ==
  LET tower == sc.towers[i]
  IN  IF tower.isDestroyed \/ tower.attackCooldown > 0 THEN sc
      ELSE With(ClosestMinion(sc, PlaceOf(sc, TowerRef(i)),
                              IF tower.team = "ally" THEN "enemy" ELSE "ally",
                              tower.shootingRange),
                LAMBDA aim :
                  IF aim = 0 THEN sc
                  ELSE [sc EXCEPT
                          !.towers[i].attackCooldown = TowerAttackCooldown,
                          !.queue = Append(@, Aimed(sc, Shot("towerShot", i, MinionRef(aim),
                                                             tower.attackCooldown)))])

\* updateTowerAttacks, one minion: ref replaces the best target so far if
\* it is within the range and closer
CloserTarget(sc, here, ref, best, range) ==
  LET d(r) == SceneDistanceSquared(here, PlaceOf(sc, r))
  IN  IF /\ d(ref) <= range * range
         /\ (best = NoTarget \/ d(ref) < d(best))
      THEN ref ELSE best

\* updateTowerAttacks, one minion: the target it acquires among the closest
\* minion, the two towers and the base of the other team
AcquiredTarget(sc, i) ==
  LET minion == sc.minions[i]
      here == PlaceOf(sc, MinionRef(i))
      other == IF minion.team = "ally" THEN "enemy" ELSE "ally"
      tower1 == IF other = "ally" THEN TowerRef(1) ELSE TowerRef(3)
      tower2 == IF other = "ally" THEN TowerRef(2) ELSE TowerRef(4)
      afterTower(tower, best) ==
        IF sc.towers[tower.id].isDestroyed THEN best
        ELSE CloserTarget(sc, here, tower, best, MinionAttackRange)
  IN  IF minion.isDestroyed \/ minion.attackTarget # NoTarget
      THEN minion.attackTarget
      ELSE
        With(ClosestMinion(sc, here, other, MinionAttackRange), LAMBDA closest :
        With(IF closest = 0 THEN NoTarget ELSE MinionRef(closest), LAMBDA afterMinions :
        With(afterTower(tower1, afterMinions), LAMBDA afterTower1 :
        With(afterTower(tower2, afterTower1), LAMBDA afterTower2 :
          CloserTarget(sc, here, BaseRef(other), afterTower2,
                       MinionAttackRange + BaseAggroExtra)))))

\* updateTowerAttacks
UpdateTowerAttacks(sc) ==
  With(TowerAttack(sc, 1), LAMBDA fired1 :
  With(TowerAttack(fired1, 2), LAMBDA fired2 :
  With(TowerAttack(fired2, 3), LAMBDA fired3 :
  With(TowerAttack(fired3, 4), LAMBDA fired :
    [fired EXCEPT !.minions =
       [i \in DOMAIN fired.minions |->
          [fired.minions[i] EXCEPT !.attackTarget = AcquiredTarget(fired, i)]]]))))


\* minion.update, up to the attack: cooldown decreased, a destroyed or
\* hidden target dropped
MinionReady(sc, i) ==
  LET minion == sc.minions[i]
  IN  [minion EXCEPT
         !.attackCooldown = IF @ > 0 THEN @ - 1 ELSE @,
         !.attackTarget = IF @ # NoTarget /\ TargetGone(sc, @) THEN NoTarget ELSE @]

\* minion.update attacks: it has a target and its cooldown is over
MinionAttacks(sc, i) ==
  /\ ~sc.minions[i].isDestroyed
  /\ MinionReady(sc, i).attackTarget # NoTarget
  /\ MinionReady(sc, i).attackCooldown <= 0

\* minion.update fires a projectile: the target has a takeDamage method
MinionFires(sc, i) ==
  MinionAttacks(sc, i) /\ MinionReady(sc, i).attackTarget.kind # "character"

\* a minion.update that ends before the movement
MinionUpdateWithoutMovement(sc, i) ==
  IF sc.minions[i].isDestroyed THEN sc.minions[i]
  ELSE IF MinionAttacks(sc, i)
       THEN [MinionReady(sc, i) EXCEPT !.attackCooldown =
               IF MinionFires(sc, i) THEN MinionAttackCooldown ELSE @]
       ELSE MinionReady(sc, i)

\* a minion.update without the early return for a destroyed minion
MinionUpdateUndead(sc, i) ==
  LET ready == MinionReady(sc, i)
      newS == ready.s + Sign(ready.targetPosition - ready.s) * MinionSpeed
  IN  IF ready.attackTarget # NoTarget /\ ready.attackCooldown <= 0
      THEN [ready EXCEPT !.attackCooldown = MinionAttackCooldown]
      ELSE [ready EXCEPT !.s = newS]

\* minion.update
MinionUpdate(sc, i) ==
  LET minion == sc.minions[i]
      ready == MinionReady(sc, i)
      newS == ready.s + Sign(ready.targetPosition - ready.s) * MinionSpeed
      distToAllyBase ==
        IF ready.diagonal THEN Abs(newS + BaseCentre) ELSE FarAway
      distToEnemyBase ==
        IF ready.diagonal THEN Abs(newS - BaseCentre)
        ELSE Abs(ready.targetPosition - newS)
  IN  IF minion.isDestroyed THEN minion
      ELSE IF MinionAttacks(sc, i)
           THEN [ready EXCEPT !.attackCooldown =
                   IF MinionFires(sc, i) THEN MinionAttackCooldown ELSE @]
           ELSE [ready EXCEPT !.s = newS,
                              !.y = GroundHeight(distToAllyBase, distToEnemyBase)]

RespawnTime == 5            \* seconds

\* the death check of animate
DeathCheck(c) ==
  IF c.health <= 0 /\ c.visible
  THEN \* updateRespawnTimer() displays respawnTime, decrements its local
       \* and sets the timeout of the next second
       [c EXCEPT !.visible = FALSE, !.respawnPending = TRUE,
                 !.respawnTimer = <<RespawnTime>>,
                 !.countdowns = Append(@, RespawnTime - 1)]
  ELSE c

\* animate
Animate(sc) ==
  With(UpdateMovement(sc), LAMBDA walked :
  With(UpdateTowerAttacks(walked), LAMBDA moved :
  With(SelectSeq([i \in DOMAIN moved.minions |-> i],
                 LAMBDA i : MinionFires(moved, i)), LAMBDA shooters :
    [moved EXCEPT
       !.minions = [i \in DOMAIN moved.minions |-> MinionUpdate(moved, i)],
       !.queue = @ \o [k \in DOMAIN shooters |->
                         Aimed(moved,
                               Shot("minionShot", shooters[k],
                                    MinionReady(moved, shooters[k]).attackTarget,
                                    MinionReady(moved, shooters[k]).attackCooldown))],
       !.towers = [i \in DOMAIN moved.towers |->
                     [moved.towers[i] EXCEPT
                        !.attackCooldown = IF @ > 0 THEN @ - 1 ELSE @]],
       !.character = DeathCheck(moved.character)])))

\* the scene as a frame finds it, with nothing registered yet for the
\* frame after
SceneNow ==
  [ minions   |-> minionsList,
    towers    |-> towers,
    ally      |-> allyBase,
    enemy     |-> enemyBase,
    character |-> character,
    queue     |-> << >>,
    faults    |-> faults ]

\* one animation frame: the registered callbacks in order, animate last
RunFrame ==
  \E sc \in {With(RunCallbacks(SceneNow, rafQueue, 1), Animate)} :
      /\ minionsList' = sc.minions
      /\ towers' = sc.towers
      /\ allyBase' = sc.ally
      /\ enemyBase' = sc.enemy
      /\ character' = sc.character
      /\ rafQueue' = sc.queue
      /\ faults' = sc.faults
      /\ frame' = frame + 1
      /\ lastHandler' = "frame"
      /\ UNCHANGED <<gameState, healthVars, spawner, timers, regVars, testMap>>

\* the frames of the match until the wave interval first fires
Frame ==
  /\ frame < MaxFrames
  /\ RunFrame

InitScene == Mounted(JitterVectors)

NextScene == Frame

SpecScene == InitScene /\ [][NextScene]_vars


(***************************************************************************)
(* The player of the scene: the keys p and h, the right click, the frames  *)
(* and the respawn timeout.                                                *)
(***************************************************************************)
ClickTargets == {-3800}     \* points of the ground near the ally spawn

\* the rays of the clicks: <<the point of the ground the ray meets>>, or
\* << >> for a ray that does not meet the ground plane
ClickRays == {<<point>> : point \in ClickTargets} \cup {<< >>}

\* ray.intersectPlane(plane, target) as onMouseClick uses it: the result is
\* dropped and target is read, which is left as it was when the ray does not
\* meet the plane
IntersectPlane(ray, target) ==
  IF ray = << >> THEN target ELSE ray[1]

\* onMouseClick with the right button: intersectionPoint is a new Vector3,
\* the origin, handed to intersectPlane; clamped, it becomes the target
OnMouseClick ==
  /\ \E ray \in ClickRays :
       /\ \E point \in {IntersectPlane(ray, 0)} :
            character' = [character EXCEPT
                            !.targetPosition =
                              <<Max(-PlayableHalf, Min(PlayableHalf, point))>>]
       /\ lastHandler' = IF ray = << >> THEN "clickOffGround" ELSE "click"
  /\ UNCHANGED <<allyBase, enemyBase, gameState, minionsList, towers, rafQueue, testMap,
                 frame, faults, healthVars, spawner, timers, regVars>>

\* testPlayerDamage (key p)
TestPlayerDamage ==
  /\ \E amount \in PlayerDraws : character' = CharacterLoseHealth(character, amount)
  /\ lastHandler' = "key"
  /\ UNCHANGED <<allyBase, enemyBase, gameState, minionsList, towers, rafQueue, testMap,
                 frame, faults, healthVars, spawner, timers, regVars>>

\* healPlayer(20) (key h)
HealPlayer ==
  /\ character' = [character EXCEPT
                     !.health = Min(character.maxHealth, character.health + HealKeyAmount)]
  /\ lastHandler' = "key"
  /\ UNCHANGED <<allyBase, enemyBase, gameState, minionsList, towers, rafQueue, testMap,
                 frame, faults, healthVars, spawner, timers, regVars>>

\* a timeout of 1000 ms calls updateRespawnTimer: it displays its local
\* respawnTimer, decrements it and, while it is not negative, sets the
\* timeout of the next second
UpdateRespawnTimer ==
  /\ \E k \in DOMAIN character.countdowns :
       LET local == character.countdowns[k]
           others == [j \in 1..(Len(character.countdowns) - 1) |->
                        character.countdowns[IF j < k THEN j ELSE j + 1]]
       IN  character' =
             [character EXCEPT
                !.respawnTimer = <<local>>,
                !.countdowns = IF local - 1 >= 0
                               THEN [@ EXCEPT ![k] = local - 1]
                               ELSE others]
  /\ lastHandler' = "updateRespawnTimer"
  /\ UNCHANGED <<allyBase, enemyBase, gameState, minionsList, towers, rafQueue, testMap,
                 frame, faults, healthVars, spawner, timers, regVars>>

\* the timeout of respawnTime * 1000 ms set by the death check fires: the
\* character respawns.  It was set right after the first timeout of the
\* countdown, so it is due with the fifth call of updateRespawnTimer, the one
\* that displays 0, and after the fourth: either of the two may run first
RespawnTimeout ==
  /\ character.respawnPending
  /\ \A k \in DOMAIN character.countdowns : character.countdowns[k] <= 0
  /\ lives < MaxLives
  /\ character' = [character EXCEPT !.health = character.maxHealth,
                                    !.visible = TRUE,
                                    !.s = -SpawnPoint,
                                    !.y = 0,
                                    !.targetPosition = << >>,
                                    !.respawnPending = FALSE,
                                    !.respawnTimer = << >>]
  /\ lives' = lives + 1
  /\ lastHandler' = "timeout"
  /\ UNCHANGED <<allyBase, enemyBase, gameState, minionsList, towers, rafQueue, testMap,
                 frame, faults, ent, lastCall, spawner, timers, regVars>>

\* the first frames of the scene
PlayerFrame ==
  /\ frame < MaxPlayerFrames
  /\ RunFrame

NextPlayer ==
  \/ OnMouseClick
  \/ TestPlayerDamage
  \/ HealPlayer
  \/ UpdateRespawnTimer
  \/ RespawnTimeout
  \/ PlayerFrame

SpecPlayer == InitMatch /\ [][NextPlayer]_vars


(***************************************************************************)
(* C2: in every reachable state every damageable entity is destroyed if    *)
(* and only if its health is 0, also after heal, respawn and reset.        *)
(* Stated on the entities of the scene at the end of each frame, when the  *)
(* death check of the frame has run.  The character of the scene has no    *)
(* isDestroyed field: it is destroyed while its model is hidden, from the  *)
(* death check until the respawn.                                          *)
(***************************************************************************)
DestroyedIffHealthZero ==
  lastHandler = "frame" =>
    /\ \A i \in DOMAIN minionsList :
         minionsList[i].isDestroyed <=> minionsList[i].health = 0
    /\ \A i \in DOMAIN towers : towers[i].isDestroyed <=> towers[i].health = 0
    /\ \A base \in {allyBase, enemyBase} :
         /\ base.isDestroyed <=> base.health = 0
         /\ base.objective.isDestroyed <=> base.objective.health = 0
    /\ ~character.visible <=> character.health = 0

(***************************************************************************)
(* C4: a projectile that arrives damages the entity its attacker targeted  *)
(* when it fired; if that target was destroyed in between and the attacker *)
(* has cleared or changed its attackTarget, the arrival is a safe no-op:   *)
(* no error is raised and no other entity is damaged.                      *)
(***************************************************************************)
ProjectileArrivalSafe ==
  /\ faults.errors = 0
  /\ faults.misdirected = 0


(***************************************************************************)
(* The registry and the vectors its callers hold.  A caller passes a       *)
(* vector it keeps to the registry and may change it afterwards.           *)
(***************************************************************************)
VectorNames == {"v1", "v2"}

InitAlias ==
  /\ entities = << >>
  /\ lastQuery = NoQuery
  /\ callerVectors \in [VectorNames -> RegPositions]
  /\ aliases = {}
  /\ lastRegistryCall = NoRegistryCall
  /\ ent = NoEnt
  /\ lives = 1
  /\ lastCall = NoCall
  /\ spawner = NoSpawner
  /\ timers = NoTimers
  /\ NoMatch

\* updateMetadata(id, {position: v}) with a vector v the caller holds:
\* Object.assign stores v itself in the entry
UpdateMetadataPosition ==
  \E id \in Ids, name \in VectorNames :
    /\ entities' = WithMetadata(entities, id, [position |-> callerVectors[name]])
    /\ aliases' = IF IndexOf(entities, id) # 0
                  THEN {a \in aliases : a[1] # id} \cup {<<id, name>>}
                  ELSE aliases
    /\ lastQuery' = NoQuery
    /\ lastRegistryCall' = RegistryCall("updateMetadata", id)
    /\ UNCHANGED <<callerVectors, healthVars, spawner, timers, matchVars, sceneVars>>

\* the caller changes a vector it holds: v.set(x, y, z)
MutateVector ==
  \E name \in VectorNames, position \in RegPositions :
    /\ callerVectors' = [callerVectors EXCEPT ![name] = position]
    /\ entities' = [i \in DOMAIN entities |->
                      IF <<entities[i].id, name>> \in aliases
                      THEN [entities[i] EXCEPT !.data.position = position]
                      ELSE entities[i]]
    /\ lastQuery' = NoQuery
    /\ lastRegistryCall' = [op |-> "none", id |-> "none", known |-> FALSE]
    /\ UNCHANGED <<aliases, healthVars, spawner, timers, matchVars, sceneVars>>

NextAlias ==
  Register \/ UpdatePosition \/ UpdateMetadataPosition \/ Remove \/ MutateVector

SpecAlias == InitAlias /\ [][NextAlias]_vars

(***************************************************************************)
(* C11: the position stored in a registry entry is always a private clone, *)
(* never the vector object a caller supplied to register, updatePosition   *)
(* or updateMetadata, so that a caller changing its vector afterwards      *)
(* never changes the entry.                                                *)
(***************************************************************************)
PositionIsPrivateClone == aliases = {}


(***************************************************************************)
(* C12: updatePosition, updateMetadata or remove called with an id that is *)
(* not registered changes nothing in the registry (no entry is created,    *)
(* none is changed) and raises nothing; so remove is idempotent.           *)
(***************************************************************************)
UnknownIdIsNoOp ==
  [][ (/\ lastRegistryCall'.op \in {"updatePosition", "updateMetadata", "remove"}
       /\ ~lastRegistryCall'.known)
      => /\ entities' = entities
         /\ callerVectors' = callerVectors
         /\ aliases' = aliases ]_vars

\* an entry is registered and remove was just called with another id
UnknownIdWitness ==
  /\ lastRegistryCall.op = "remove"
  /\ ~lastRegistryCall.known
  /\ Len(entities) = 1
  /\ entities[1].id # lastRegistryCall.id


(***************************************************************************)
(* TestMap: one tower of Tower.ts at the centre of the map, scanning the   *)
(* registry every 500 ms, and one player who is registered under the id    *)
(* 'player1' and reports each move.  Distances are in world units; the     *)
(* cooldown of the tower is counted in the half seconds between two scans. *)
(***************************************************************************)
MaxMounts == 2

PlayerId == "player1"
TestTowerHealth == 1000
TestTowerPosition == <<0, 0, 0>>
PlayerInitialPosition == <<0, 0, 30>>
PlayerInitialHealth == 100
\* tower.attackCooldown = 2 (seconds), and the 0.5 taken off at each scan
DetectCooldown == 4
DetectStep == 1

\* where the player reports to be, and the values the range slider is given
TestPositions == { <<0, 0, 30>>, <<0, 0, 16>>, <<0, 0, 15>>, <<0, 0, 5>> }
TestRanges == {5, 15, 30}

OtherTeam(team) == IF team = "blue" THEN "red" ELSE "blue"

\* tower.startDetection
TowerStartDetection(tower) ==
  [TowerStopDetection(tower) EXCEPT !.detectionInterval = "interval"]

\* the tower effect of TestMap: a new tower that scans
TestMapTower(team, range) ==
  << TowerStartDetection(NewTower(team, TestTowerHealth, range)) >>

\* the registry effect of TestMap, run at the mount and when playerTeam
\* changes, on the Map the cleanup of the previous run has left
PlayerRegistryEffect(seq, team) ==
  IF IndexOf(seq, PlayerId) = 0
  THEN /\ entities' = MapSet(seq, PlayerId,
                             [ position  |-> PlayerInitialPosition,
                               team      |-> team,
                               type      |-> "player",
                               health    |-> PlayerInitialHealth,
                               maxHealth |-> PlayerInitialHealth,
                               isAlive   |-> TRUE ])
       /\ lastRegistryCall' = [op |-> "register", id |-> PlayerId, known |-> FALSE]
  ELSE /\ entities' = WithMetadata(seq, PlayerId, [team |-> team])
       /\ lastRegistryCall' = [op |-> "updateMetadata", id |-> PlayerId,
                               known |-> TRUE]

\* a cleanup of the registry effect that removes the entry
PlayerRegistryCleanupAlways(seq, team) ==
  MapDelete(seq, PlayerId)

\* the cleanup of the registry effect, closed over the playerTeam of its render
PlayerRegistryCleanup(seq, team) ==
  IF team = Undef THEN MapDelete(seq, PlayerId) ELSE seq

InitTestMap ==
  /\ entities = << >>
  /\ lastQuery = NoQuery
  /\ NoCallers
  /\ ent = NoEnt
  /\ lives = 1
  /\ lastCall = NoCall
  /\ spawner = NoSpawner
  /\ timers = NoTimers
  /\ NoMatch

\* TestMap is mounted: the tower effect, then the registry effect
TestMapMount ==
  /\ ~testMap.mounted
  /\ testMap.mounts < MaxMounts
  /\ testMap' = [NoTestMap EXCEPT !.mounted = TRUE, !.mounts = testMap.mounts + 1]
  /\ towers' = TestMapTower(NoTestMap.towerTeam, NoTestMap.towerRange)
  /\ PlayerRegistryEffect(entities, NoTestMap.playerTeam)
  /\ lastHandler' = "mount"
  /\ UNCHANGED <<lastQuery, callerVectors, aliases, healthVars, spawner, timers, allyBase, enemyBase,
                 gameState, minionsList, character, rafQueue, frame, faults>>

\* TestMap is unmounted: the cleanups of its effects run
TestMapUnmount ==
  /\ testMap.mounted
  /\ testMap' = [testMap EXCEPT !.mounted = FALSE]
  /\ towers' = << TowerStopDetection(towers[1]) >>
  /\ entities' = PlayerRegistryCleanup(entities, testMap.playerTeam)
  /\ lastHandler' = "unmount"
  /\ UNCHANGED <<lastQuery, callerVectors, aliases, lastRegistryCall, healthVars, spawner, timers,
                 allyBase, enemyBase, gameState, minionsList, character, rafQueue,
                 frame, faults>>

\* togglePlayerTeam: the cleanup of the registry effect, then the effect
TogglePlayerTeam ==
  /\ testMap.mounted
  /\ testMap' = [testMap EXCEPT !.playerTeam = OtherTeam(@)]
  /\ \E cleaned \in {PlayerRegistryCleanup(entities, testMap.playerTeam)} :
       PlayerRegistryEffect(cleaned, OtherTeam(testMap.playerTeam))
  /\ lastHandler' = "togglePlayerTeam"
  /\ UNCHANGED <<towers, lastQuery, callerVectors, aliases, healthVars, spawner, timers, allyBase,
                 enemyBase, gameState, minionsList, character, rafQueue, frame, faults>>

\* toggleTowerTeam: the tower effect replaces the tower
ToggleTowerTeam ==
  /\ testMap.mounted
  /\ testMap' = [testMap EXCEPT !.towerTeam = OtherTeam(@), !.shot = NoShot]
  /\ towers' = TestMapTower(OtherTeam(testMap.towerTeam), testMap.towerRange)
  /\ lastHandler' = "toggleTowerTeam"
  /\ UNCHANGED <<regVars, healthVars, spawner, timers, allyBase, enemyBase, gameState, minionsList,
                 character, rafQueue, frame, faults>>

\* the range slider: the tower effect replaces the tower
SetTowerRange ==
  /\ testMap.mounted
  /\ \E range \in TestRanges \ {testMap.towerRange} :
       /\ testMap' = [testMap EXCEPT !.towerRange = range, !.shot = NoShot]
       /\ towers' = TestMapTower(testMap.towerTeam, range)
  /\ lastHandler' = "setTowerRange"
  /\ UNCHANGED <<regVars, healthVars, spawner, timers, allyBase, enemyBase, gameState, minionsList,
                 character, rafQueue, frame, faults>>

\* onPositionChange of the Player: updatePosition
OnPositionChange ==
  /\ testMap.mounted
  /\ \E position \in TestPositions :
       IF IndexOf(entities, PlayerId) # 0
       THEN CopyInto(PlayerId, position)
       ELSE UNCHANGED <<entities, callerVectors>>
  /\ lastRegistryCall' = RegistryCall("updatePosition", PlayerId)
  /\ lastHandler' = "onPositionChange"
  /\ UNCHANGED <<lastQuery, aliases, healthVars, spawner, timers, allyBase, enemyBase, gameState,
                 minionsList, sceneVars>>

\* what detectEnemies does to the tower, given the result of the registry
Detected(tower, result) ==
  IF Len(result) > 0
  THEN IF tower.attackCooldown <= 0
       THEN [tower EXCEPT !.attackCooldown = DetectCooldown]
       ELSE [tower EXCEPT !.attackCooldown = @ - DetectStep]
  ELSE IF tower.attackCooldown > 0
       THEN [tower EXCEPT !.attackCooldown = @ - DetectStep]
       ELSE tower

\* what that scan shot at
DetectedShot(tower, result) ==
  [ ran      |-> TRUE,
    fired    |-> Len(result) > 0 /\ tower.attackCooldown <= 0,
    target   |-> IF Len(result) > 0 /\ tower.attackCooldown <= 0
                 THEN result[1].id ELSE "none",
    cooldown |-> tower.attackCooldown,
    since    |-> << >> ]

\* the scans since the last shot, after a scan that found result
SinceShot(tower, since, result) ==
  IF Len(result) = 0 THEN << >>
  ELSE IF tower.attackCooldown <= 0 THEN <<0>>
  ELSE IF since = << >> THEN << >>
  ELSE <<since[1] + 1>>

\* one tick of the detection interval: tower.detectEnemies
DetectionTick ==
  /\ Len(towers) = 1
  /\ towers[1].detectionInterval # Null
  /\ \E result \in GetEntitiesInRange(TestTowerPosition, towers[1].shootingRange,
                                      towers[1].team) :
       /\ towers' = << Detected(towers[1], result) >>
       /\ testMap' = [testMap EXCEPT !.shot =
                        [DetectedShot(towers[1], result) EXCEPT
                           !.since = SinceShot(towers[1], testMap.shot.since, result)]]
       /\ lastQuery' = [position |-> TestTowerPosition,
                        range |-> towers[1].shootingRange,
                        team |-> towers[1].team, result |-> result, called |-> TRUE]
  /\ lastRegistryCall' = RegistryCall("getEntitiesInRange", "none")
  /\ lastHandler' = "detectEnemies"
  /\ UNCHANGED <<entities, callerVectors, aliases, healthVars, spawner, timers, allyBase, enemyBase,
                 gameState, minionsList, character, rafQueue, frame, faults>>

NextTestMap ==
  \/ TestMapMount
  \/ TestMapUnmount
  \/ TogglePlayerTeam
  \/ ToggleTowerTeam
  \/ SetTowerRange
  \/ OnPositionChange
  \/ DetectionTick

SpecTestMap == InitTestMap /\ [][NextTestMap]_vars

\* C13: once the test map is torn down, the registry holds no entry for that
\* map's player
TornDownLeavesNoEntry ==
  (testMap.mounts > 0 /\ ~testMap.mounted) => IndexOf(entities, PlayerId) = 0


(***************************************************************************)
(* The player walks to the enemy towers: a right click in the first frames *)
(* of the match, then the frames.                                          *)
(***************************************************************************)
MaxClickFrame == 2
MaxSiegeFrames == 800
SiegeTargets == {400}       \* a point of the ground past the map centre

\* onMouseClick with the right button, while the match starts
SiegeClick ==
  /\ frame <= MaxClickFrame
  /\ \E point \in SiegeTargets :
       character' = [character EXCEPT
                       !.targetPosition = <<Max(-PlayableHalf, Min(PlayableHalf, point))>>]
  /\ lastHandler' = "click"
  /\ UNCHANGED <<allyBase, enemyBase, gameState, minionsList, towers, rafQueue, testMap,
                 frame, faults, healthVars, spawner, timers, regVars>>

SiegeFrame ==
  /\ frame < MaxSiegeFrames
  /\ RunFrame

NextSiege == SiegeClick \/ SiegeFrame

SpecSiege == InitScene /\ [][NextSiege]_vars

\* the projectiles fired in the frame that has just run
FiredNow == {k \in DOMAIN rafQueue :
               /\ rafQueue[k].steps = 1
               /\ rafQueue[k].kind \in {"towerShot", "towerShotPlayer",
                                        "minionShot", "minionShotPlayer"}}

\* C14: no tower and no minion fires a projectile while its attackCooldown
\* is above 0, whatever the target
NoShotDuringCooldown ==
  \A k \in FiredNow : rafQueue[k].cooldown <= 0


(***************************************************************************)
(* A tower of Tower.ts that scans the registry while the other components  *)
(* register, update and remove their entities, and while it takes damage.  *)
(***************************************************************************)
DetectRange == 5
DetectHealths == {1, 5}
DetectTowerTeam == "red"
DetectDamage == 300
\* the team of the entities the other components register
DetectTeams == {"blue"}

\* what the components register
DetectData ==
  [ position : RegPositions, team : DetectTeams, type : EntityTypes,
    health : DetectHealths, isAlive : {TRUE} ]

\* createTower(position, team) with the default health, and startDetection
InitDetect ==
  /\ entities = << >>
  /\ lastQuery = NoQuery
  /\ NoCallers
  /\ ent = NoEnt
  /\ lives = 1
  /\ lastCall = NoCall
  /\ spawner = NoSpawner
  /\ timers = NoTimers
  /\ allyBase = Null
  /\ enemyBase = Null
  /\ gameState = NewGameState
  /\ minionsList = << >>
  /\ lastHandler = "none"
  /\ towers = << TowerStartDetection(
                   NewTower(DetectTowerTeam, TowerInitialHealth, DetectRange)) >>
  /\ character = Null
  /\ rafQueue = << >>
  /\ frame = 0
  /\ faults = NoFaults
  /\ testMap = NoTestMap

DetectRegister ==
  \E id \in Ids, data \in DetectData : RegisterCall(id, data)

\* a component reports the death of its entity
DetectDeath ==
  \E id \in Ids : UpdateMetadataCall(id, [isAlive |-> FALSE])

\* tower.takeDamage(amount)
TowerHit ==
  /\ towers' = << TowerTakeDamage(towers[1], DetectDamage) >>
  /\ lastHandler' = "takeDamage"
  /\ UNCHANGED <<regVars, healthVars, spawner, timers, allyBase, enemyBase, gameState, minionsList,
                 character, rafQueue, frame, faults, testMap>>

NextDetect == DetectRegister \/ DetectDeath \/ Remove \/ TowerHit \/ DetectionTick

SpecDetect == InitDetect /\ [][NextDetect]_vars

\* the enemies the registry holds alive within the range of the tower
EnemiesInRange ==
  {i \in DOMAIN entities :
     RangeFilter(entities[i].data, TestTowerPosition, towers[1].shootingRange,
                 towers[1].team)}

\* the tower has just fired, and the registry is as the scan found it
JustFired ==
  /\ lastRegistryCall.op = "getEntitiesInRange"
  /\ testMap.shot.fired

\* C15: whenever a tower fires, its target is the highest-priority enemy in
\* range: an alive enemy player if one is in range, otherwise the alive
\* enemy in range with the lowest health
FiresAtHighestPriority ==
  JustFired =>
    LET target == entities[IndexOf(entities, testMap.shot.target)].data
    IN  IF \E i \in EnemiesInRange : entities[i].data.type = "player"
        THEN target.type = "player"
        ELSE \A i \in EnemiesInRange : target.health <= entities[i].data.health


\* C16: once a tower is destroyed its detection scan is stopped and it
\* fires no projectile any more: it stays destroyed, its interval stays
\* cleared and its attackCooldown, which every shot sets, is never raised
DestroyedTowerNeverFires ==
  [][ \A i \in DOMAIN towers :
        towers[i].isDestroyed =>
          /\ i \in DOMAIN towers'
          /\ towers'[i].isDestroyed
          /\ towers'[i].detectionInterval = Null
          /\ towers'[i].attackCooldown <= towers[i].attackCooldown
          /\ testMap'.shot = testMap.shot ]_vars

\* the tower is destroyed while an enemy it could fire at is in range
DestroyedTowerWitness ==
  /\ towers[1].isDestroyed
  /\ towers[1].attackCooldown <= 0
  /\ EnemiesInRange # {}
  /\ lastRegistryCall.op = "register"

TwoTowerShotsKill ==
  \A i \in DOMAIN minionsList :
    minionsList[i].minionHits = 0 =>
      /\ minionsList[i].towerHits = 0 =>
           (minionsList[i].health = MinionMaxHealth /\ ~minionsList[i].isDestroyed)
      /\ minionsList[i].towerHits = 1 =>
           (minionsList[i].health = MinionMaxHealth - TowerDamage
              /\ ~minionsList[i].isDestroyed)
      /\ minionsList[i].towerHits >= 2 =>
           (minionsList[i].towerHits = 2 /\ minionsList[i].health = 0
              /\ minionsList[i].isDestroyed)

\* a minion that only a tower has hit is destroyed
TwoTowerShotsWitness ==
  \E i \in DOMAIN minionsList :
    /\ minionsList[i].minionHits = 0
    /\ minionsList[i].towerHits = 2
    /\ minionsList[i].isDestroyed


\* the minion has an attackTarget and its attackCooldown is above 0
Engaged(list, i) ==
  /\ ~list[i].isDestroyed
  /\ list[i].attackTarget # NoTarget
  /\ list[i].attackCooldown > 0

\* C19: while a minion has an attackTarget and its attackCooldown is above
\* 0, its position does not change
StationaryWhileCoolingDown ==
  [][ \A i \in DOMAIN minionsList :
        (i \in DOMAIN minionsList' /\ Engaged(minionsList, i) /\ Engaged(minionsList', i))
          => (minionsList'[i].s = minionsList[i].s) ]_vars


(***************************************************************************)
(* The Minion component: one ally minion with its own animation loop, and  *)
(* the enemy base it is given in bases, on the diagonal of the map.  The   *)
(* only attackTarget the component ever sets is the monument of that base. *)
(***************************************************************************)
MaxComponentFrames == 300
ComponentStarts == {3480, 3520}   \* the position prop: 87 and 88 from the centre
DefaultTarget == 4243             \* (75, 0, -75): 106.07 from the centre
MonumentAggroExtra == 400         \* 10

MonumentRef == [kind |-> "monument", id |-> 2]

\* the minion the effect of the component creates
NewComponentMinion(start) ==
  [NewMinion("ally", "mid", 0) EXCEPT !.s = start, !.targetPosition = DefaultTarget]

InitComponent ==
  /\ \E start \in ComponentStarts : minionsList = << NewComponentMinion(start) >>
  /\ enemyBase = NewBase(TRUE)
  /\ allyBase = Null
  /\ gameState = NewGameState
  /\ lastHandler = "mount"
  /\ towers = << >>
  /\ character = Null
  /\ rafQueue = << >>
  /\ frame = 0
  /\ faults = NoFaults
  /\ testMap = NoTestMap
  /\ ent = NoEnt
  /\ lives = 1
  /\ lastCall = NoCall
  /\ spawner = NoSpawner
  /\ timers = NoTimers
  /\ entities = << >>
  /\ lastQuery = NoQuery
  /\ NoCallers

\* (attackTarget as any).isDestroyed || !(attackTarget as any).visible, for
\* the monument: the mesh has no isDestroyed property, its flag is
\* userData.isDestroyed, and nothing hides it
MonumentGoneAsRead(base) ==
  FALSE

\* userData.team of the monument: addHealthToMonument sets health,
\* maxHealth, isDestroyed, healthBar, updateHealthBar and takeDamage on
\* userData, and no team
MonumentTeam == Undef

\* damageAmount of animateProjectile: a fifth of the damage for a target
\* whose userData.team is 'ally' or 'enemy', the damage in full otherwise
DamageAmount(team, damage) ==
  IF team = "ally" \/ team = "enemy" THEN damage \div 5 ELSE damage

\* the callbacks of the frame: a projectile that arrives calls
\* userData.takeDamage of the attackTarget the minion has now
RECURSIVE ProjectilesArrive(_, _, _, _)
ProjectilesArrive(base, minion, queue, i) ==
  IF i > Len(queue) THEN base
  ELSE IF queue[i].steps >= MinionShotSteps /\ minion.attackTarget = MonumentRef
       THEN ProjectilesArrive(
              MonumentTakeDamage(base, DamageAmount(MonumentTeam, MinionDamage)),
              minion, queue, i + 1)
       ELSE ProjectilesArrive(base, minion, queue, i + 1)

\* animateProjectile asks for another frame until progress >= 1
ProjectilesFlying(queue) ==
  LET flying == SelectSeq(queue, LAMBDA cb : cb.steps < MinionShotSteps)
  IN  [k \in DOMAIN flying |-> [flying[k] EXCEPT !.steps = @ + 1]]

\* minion.update of the component, up to the attack
ComponentReady(minion, base) ==
  LET cooled == [minion EXCEPT !.attackCooldown = IF @ > 0 THEN @ - 1 ELSE @]
      kept == IF cooled.attackTarget # NoTarget /\ MonumentGoneAsRead(base)
              THEN [cooled EXCEPT !.attackTarget = NoTarget]
              ELSE cooled
  IN  IF /\ kept.attackTarget = NoTarget
         /\ ~base.objective.isDestroyed
         /\ Abs(BaseCentre - kept.s) <= MinionAttackRange + MonumentAggroExtra
      THEN [kept EXCEPT !.attackTarget = MonumentRef]
      ELSE kept

\* minion.update of the component
ComponentUpdate(minion, base) ==
  LET ready == ComponentReady(minion, base)
      newS == ready.s + Sign(ready.targetPosition - ready.s) * MinionSpeed
  IN  IF minion.isDestroyed THEN minion
      ELSE IF ready.attackTarget # NoTarget /\ ready.attackCooldown <= 0
           THEN [ready EXCEPT !.attackCooldown = MinionAttackCooldown]
           ELSE [ready EXCEPT !.s = newS,
                              !.y = GroundHeight(Abs(newS + BaseCentre),
                                                 Abs(newS - BaseCentre))]

\* one animation frame of the component: the projectiles, then animate
ComponentFrame ==
  /\ frame < MaxComponentFrames
  /\ \E base \in {ProjectilesArrive(enemyBase, minionsList[1], rafQueue, 1)} :
     \E ready \in {ComponentReady(minionsList[1], base)} :
       /\ enemyBase' = base
       /\ minionsList' = << ComponentUpdate(minionsList[1], base) >>
       /\ rafQueue' =
            ProjectilesFlying(rafQueue) \o
            (IF /\ ~minionsList[1].isDestroyed
                /\ ready.attackTarget # NoTarget
                /\ ready.attackCooldown <= 0
             THEN << Shot("minionShot", 1, ready.attackTarget, ready.attackCooldown) >>
             ELSE << >>)
  /\ frame' = frame + 1
  /\ lastHandler' = "update"
  /\ UNCHANGED <<allyBase, gameState, towers, character, faults, testMap,
                 healthVars, spawner, timers, regVars>>

\* the projectile of another minion of the wave reaches the monument
MonumentStruck ==
  /\ enemyBase' = MonumentTakeDamage(enemyBase, DamageAmount(MonumentTeam, MinionDamage))
  /\ lastHandler' = "struck"
  /\ UNCHANGED <<allyBase, gameState, minionsList, towers, character, rafQueue,
                 frame, faults, testMap, healthVars, spawner, timers, regVars>>

NextComponent == ComponentFrame \/ MonumentStruck

SpecComponent == InitComponent /\ [][NextComponent]_vars

\* C20: when the attackTarget of a minion is destroyed or invisible, the
\* next update of the minion clears attackTarget: after an update no minion
\* holds a destroyed monument as its target
UpdateClearsDestroyedTarget ==
  lastHandler = "update" =>
    \A i \in DOMAIN minionsList :
      ~(minionsList[i].attackTarget = MonumentRef /\ enemyBase.objective.isDestroyed)


\* the projectiles minion i fired in the frame that has just run
FiredBy(queue, i) ==
  {k \in DOMAIN queue :
     /\ queue[k].steps = 1
     /\ queue[k].kind \in {"minionShot", "minionShotPlayer"}
     /\ queue[k].shooter = i}

\* C21: once the health of a minion has reached 0 the minion never moves,
\* acquires an attack target or fires a projectile again
DeadIsTerminal ==
  [][ \A i \in DOMAIN minionsList :
        minionsList[i].health = 0 =>
          /\ i \in DOMAIN minionsList'
          /\ minionsList'[i].health = 0
          /\ minionsList'[i].isDestroyed
          /\ minionsList'[i].s = minionsList[i].s
          /\ minionsList'[i].y = minionsList[i].y
          /\ minionsList'[i].attackTarget = minionsList[i].attackTarget
          /\ minionsList'[i].attackCooldown = minionsList[i].attackCooldown
          /\ FiredBy(rafQueue', i) = {} ]_vars

\* a minion died and its explosion has ended, frames after its death
DeadIsTerminalWitness ==
  \E i \in DOMAIN minionsList :
    /\ minionsList[i].health = 0
    /\ minionsList[i].isDestroyed
    /\ ~minionsList[i].visible


\* C22: a minion whose health reached 0 is removed from the scene and from
\* the minion list: once its explosion has ended and it has left the scene
\* (removeFromParent), the list the frames iterate holds it no more
DeadMinionsLeaveTheList ==
  \A i \in DOMAIN minionsList : minionsList[i].visible

\* where the monument of a team's base stands: createBase places the
\* children of the group at the position it is given
MonumentPlace(team) ==
  [s |-> IF team = "ally" THEN -BaseCentre ELSE BaseCentre, y |-> 0,
   diagonal |-> TRUE]

\* C23: a minion acquires the monument of the enemy base as its attack
\* target only when it is within attackRange + 15 of the place the monument
\* stands at; a minion holding the base as target has not moved since it
\* acquired it, so it is still within that distance
BaseAcquiredNearMonument ==
  \A i \in DOMAIN minionsList :
    LET minion == minionsList[i]
        other == IF minion.team = "ally" THEN "enemy" ELSE "ally"
    IN  (minion.attackTarget = BaseRef(other) /\ ~minion.isDestroyed) =>
          SceneDistanceSquared(
              [s |-> minion.s, y |-> minion.y, diagonal |-> minion.diagonal],
              MonumentPlace(other))
            <= (MinionAttackRange + BaseAggroExtra)
                 * (MinionAttackRange + BaseAggroExtra)

\* the projectiles that reach the monument in the step being taken
MonumentHits ==
  IF lastHandler' = "struck" THEN 1
  ELSE Cardinality({k \in DOMAIN rafQueue :
                      /\ rafQueue[k].steps >= MinionShotSteps
                      /\ minionsList[1].attackTarget = MonumentRef})

\* C24: every projectile of a minion of damage D that reaches a monument
\* lowers the health of the monument by exactly 0.2 * D: a step that leaves
\* the monument standing lowers its health by a fifth of MinionDamage for
\* each projectile that arrived in it
MonumentTakesAFifth ==
  [][ (~enemyBase.objective.isDestroyed /\ ~enemyBase'.objective.isDestroyed)
        => enemyBase.objective.health - enemyBase'.objective.health
             = MonumentHits * (MinionDamage \div 5) ]_vars

\* the projectiles aimed at the player that arrive in the next frame
ArrivingAtPlayer ==
  {k \in DOMAIN rafQueue :
     /\ rafQueue[k].kind \in {"towerShotPlayer", "minionShotPlayer"}
     /\ rafQueue[k].steps >= StepsNeeded(rafQueue[k].kind)}

\* C25: a projectile flies to the place its target had when it was fired
\* and is not homed again, so a target that has left that place when the
\* projectile arrives takes no damage: a frame in which every projectile
\* arriving for the player finds the player away from its endPos does not
\* lower the health of the player
MissedShotsDoNoDamage ==
  [][ ( /\ frame' = frame + 1
        /\ ArrivingAtPlayer # {}
        /\ \A k \in ArrivingAtPlayer : rafQueue[k].endPos.s # character.s )
      => character'.health >= character.health ]_vars

(***************************************************************************)
(* The MinionSpawner component: a wave at the mount, a wave at every tick  *)
(* of the spawn interval, a countdown to the next wave, and the counters   *)
(* of the minions of each team that the Minion components it renders keep  *)
(* up to date through onDestroy.                                           *)
(***************************************************************************)
MaxSpawnerWaves == 2
MaxSpawnerDeaths == 2
MinionsPerWave == 4         \* the default of the minionsPerWave prop
SpawnInterval == 2000       \* the spawnInterval prop, in milliseconds

\* spawnMinionWave without its first line
SpawnMinionWaveUnguarded(sp) ==
  [sp EXCEPT !.nextSpawnTime = SpawnInterval \div 1000,
             !.allyMinions = @ + Len(LaneNames) * MinionsPerWave,
             !.enemyMinions = @ + Len(LaneNames) * MinionsPerWave,
             !.minions.ally = @ + Len(LaneNames) * MinionsPerWave,
             !.minions.enemy = @ + Len(LaneNames) * MinionsPerWave,
             !.waves = @ + 1]

\* spawnMinionWave of MinionSpawner: nothing once the game is over;
\* otherwise, for each lane, minionsPerWave Minion elements of each team,
\* then the three state updates
SpawnerWave(sp) ==
  IF sp.gameOver THEN sp
  ELSE [sp EXCEPT !.nextSpawnTime = SpawnInterval \div 1000,
                  !.allyMinions = @ + Len(LaneNames) * MinionsPerWave,
                  !.enemyMinions = @ + Len(LaneNames) * MinionsPerWave,
                  !.minions.ally = @ + Len(LaneNames) * MinionsPerWave,
                  !.minions.enemy = @ + Len(LaneNames) * MinionsPerWave,
                  !.waves = @ + 1]

\* the component after its first render and its mount effect, which spawns
\* the initial wave
MountedSpawner(gameOver) ==
  SpawnerWave([NoSpawner EXCEPT !.mounted = TRUE,
                                !.gameOver = gameOver,
                                !.nextSpawnTime = SpawnInterval \div 1000])

InitSpawner ==
  /\ \E gameOver \in BOOLEAN : spawner = MountedSpawner(gameOver)
  /\ timers = NoTimers
  /\ entities = << >>
  /\ lastQuery = NoQuery
  /\ NoCallers
  /\ ent = NoEnt
  /\ lives = 1
  /\ lastCall = NoCall
  /\ allyBase = Null
  /\ enemyBase = Null
  /\ gameState = NewGameState
  /\ minionsList = << >>
  /\ lastHandler = "mount"
  /\ towers = << >>
  /\ character = Null
  /\ rafQueue = << >>
  /\ frame = 0
  /\ faults = NoFaults
  /\ testMap = NoTestMap

SpawnerIdle ==
  UNCHANGED <<healthVars, timers, regVars, allyBase, enemyBase, gameState,
              minionsList, sceneVars>>

\* setInterval(spawnMinionWave, spawnInterval)
SpawnerInterval ==
  /\ spawner.waves < MaxSpawnerWaves
  /\ spawner' = SpawnerWave(spawner)
  /\ lastHandler' = "spawnMinionWave"
  /\ SpawnerIdle

\* the parent renders the component with another gameOver: the effect is
\* cleaned up and runs again, and spawns its initial wave
SpawnerGameOverChanged ==
  /\ spawner.waves < MaxSpawnerWaves
  /\ spawner' = SpawnerWave([spawner EXCEPT !.gameOver = ~@])
  /\ lastHandler' = "spawnMinionWave"
  /\ SpawnerIdle

\* the countdown interval: setNextSpawnTime(prev => Math.max(0, prev - 1))
SpawnerCountdown ==
  /\ spawner.nextSpawnTime > 0
  /\ spawner' = [spawner EXCEPT !.nextSpawnTime = Max(0, @ - 1)]
  /\ lastHandler' = "countdown"
  /\ SpawnerIdle

\* a takeDamage that ends the explosion with onDestroy whatever isDestroyed
TakeDamageOfTheDead(sp, team, isDestroyed) ==
  IF team = "ally"
  THEN [sp EXCEPT !.allyMinions = Max(0, @ - 1)]
  ELSE [sp EXCEPT !.enemyMinions = Max(0, @ - 1)]

\* the spawner after takeDamage of a Minion element of a team, with an
\* amount that is no less than its health: nothing if the minion is
\* destroyed already; otherwise it is destroyed, and when its explosion
\* ends it leaves the scene and calls onDestroy, the handleDestroy of its team
LethalTakeDamage(sp, team, isDestroyed) ==
  IF isDestroyed THEN sp
  ELSE IF team = "ally"
       THEN [sp EXCEPT !.allyMinions = Max(0, @ - 1), !.destroyed.ally = @ + 1]
       ELSE [sp EXCEPT !.enemyMinions = Max(0, @ - 1), !.destroyed.enemy = @ + 1]

\* handleDestroy, the onDestroy of a Minion element of a team
SpawnerMinionDestroyed ==
  /\ \E team \in {"ally", "enemy"} :
       /\ spawner.destroyed[team] < spawner.minions[team]
       /\ spawner.destroyed[team] < MaxSpawnerDeaths
       /\ spawner' = LethalTakeDamage(spawner, team, FALSE)
  /\ lastHandler' = "onDestroy"
  /\ SpawnerIdle

\* a projectile that was on its way reaches a minion that is destroyed
SpawnerDeadMinionHit ==
  /\ \E team \in {"ally", "enemy"} :
       /\ spawner.destroyed[team] > 0
       /\ spawner' = LethalTakeDamage(spawner, team, TRUE)
  /\ lastHandler' = "takeDamage"
  /\ SpawnerIdle

NextSpawner ==
  \/ SpawnerInterval
  \/ SpawnerGameOverChanged
  \/ SpawnerCountdown
  \/ SpawnerMinionDestroyed
  \/ SpawnerDeadMinionHit

SpecSpawner == InitSpawner /\ [][NextSpawner]_vars

\* what one call of spawnMinionWave added to the Minion elements and to the
\* two counters
WaveAdded ==
  [ ally |-> spawner'.minions.ally - spawner.minions.ally,
    enemy |-> spawner'.minions.enemy - spawner.minions.enemy,
    allyMinions |-> spawner'.allyMinions - spawner.allyMinions,
    enemyMinions |-> spawner'.enemyMinions - spawner.enemyMinions ]

RespawnFollowsCountdown ==
  [][ lastHandler' = "timeout" => character.respawnTimer = <<0>> ]_vars

\* C28: from the moment the health of the player reaches 0 until the
\* respawn timer expires, move commands are ignored and the position of the
\* player does not change: no step taken while the player is dead changes
\* its targetPosition or its place
DeadPlayerStaysPut ==
  [][ (character.respawnPending /\ character'.respawnPending) =>
        /\ character'.targetPosition = character.targetPosition
        /\ character'.s = character.s ]_vars

(***************************************************************************)
(* The Player component as TestMap renders it, on the line x = 0 of the    *)
(* map, lengths in units of 0.05.  ent holds the player object of the      *)
(* setup effect, with the team and the colours the effect closed over.     *)
(* The callbacks the component is given report to the registry, which      *)
(* SpecTestMap covers; here they count for the renders of TestMap they     *)
(* cause.                                                                  *)
(***************************************************************************)
MaxIncarnations == 3
PlayerSpeed == 3            \* 0.15
PlayerStop == 2             \* 0.1
ArenaHalf == 1000           \* playableArea / 2
ArenaStart == 600           \* initialPosition: (0, 0, 30)
ArenaTargets == {606}
ImpactPlaces == {600, 606}
ImpactRadii == {5}
ImpactDamages == {50, 100}

TeamColor(team) == IF team = "red" THEN "0xff0000" ELSE "0x0000ff"

\* the player object, the mesh and the target indicator the setup effect
\* creates
NewArenaPlayer(team, incarnation) ==
  NewPlayer @@
  [ position       |-> ArenaStart,
    direction      |-> 0,
    targetPosition |-> << >>,
    team           |-> team,
    color          |-> TeamColor(team),
    indicatorColor |-> TeamColor(team),
    \* how many player objects the setup effect has created so far
    incarnation    |-> incarnation ]

InitArena ==
  /\ ent = [kind |-> "player", obj |-> NewArenaPlayer(NoTestMap.playerTeam, 1)]
  /\ testMap = [NoTestMap EXCEPT !.mounted = TRUE, !.mounts = 1]
  /\ lives = 1
  /\ lastCall = NoCall
  /\ spawner = NoSpawner
  /\ timers = NoTimers
  /\ entities = << >>
  /\ lastQuery = NoQuery
  /\ NoCallers
  /\ allyBase = Null
  /\ enemyBase = Null
  /\ gameState = NewGameState
  /\ minionsList = << >>
  /\ lastHandler = "mount"
  /\ towers = << >>
  /\ character = Null
  /\ rafQueue = << >>
  /\ frame = 0
  /\ faults = NoFaults

ArenaIdle ==
  UNCHANGED <<lives, spawner, timers, regVars, allyBase, enemyBase, gameState, minionsList,
              towers, character, rafQueue, frame, faults>>

\* onMouseClick of the Player, right button
ArenaClick ==
  /\ \E point \in ArenaTargets :
       ent' = IF ent.obj.isDestroyed THEN ent
              ELSE [ent EXCEPT !.obj.targetPosition =
                                 <<Max(-ArenaHalf, Min(ArenaHalf, point))>>]
  /\ lastHandler' = "click"
  /\ UNCHANGED <<testMap, lastCall>>
  /\ ArenaIdle

\* updateMovement of the Player
ArenaMove(player) ==
  IF player.isDestroyed THEN player
  ELSE
    LET aimed ==
          IF player.targetPosition = << >> THEN player
          ELSE IF Abs(player.targetPosition[1] - player.position) < PlayerStop
               THEN [player EXCEPT !.targetPosition = << >>, !.direction = 0]
               ELSE [player EXCEPT
                       !.direction = Sign(player.targetPosition[1] - player.position)]
        newZ == aimed.position + aimed.direction * PlayerSpeed
    IN  IF newZ >= -ArenaHalf /\ newZ <= ArenaHalf
        THEN [aimed EXCEPT !.position = newZ]
        ELSE aimed

\* one frame of the animation loop of the Player
ArenaFrame ==
  /\ ent' = [ent EXCEPT !.obj = ArenaMove(@)]
  /\ lastHandler' = "update"
  /\ UNCHANGED <<testMap, lastCall>>
  /\ ArenaIdle

\* handleProjectileImpact without the test of the team
HandleProjectileImpactAnyTeam(player, event) ==
  IF player.isDestroyed THEN player
  ELSE IF Abs(player.position - event.position) <= event.radius
       THEN PlayerTakeDamage(player, event.damage)
       ELSE player

\* handleProjectileImpact
HandleProjectileImpact(player, event) ==
  IF player.isDestroyed THEN player
  ELSE IF event.sourceTeam = player.team THEN player
  ELSE IF Abs(player.position - event.position) <= event.radius
       THEN PlayerTakeDamage(player, event.damage)
       ELSE player

\* gameEvents.dispatchEvent of a projectile_impact event.  A hit writes to
\* the log and calls onHealthChange, which shows the damage flash when the
\* health went down and sets the timeout that clears it; a death calls
\* onDeath, which writes to the log
ProjectileImpact ==
  /\ \E event \in [sourceTeam : Teams, position : ImpactPlaces,
                   radius : ImpactRadii, damage : ImpactDamages] :
     \E hit \in {HandleProjectileImpact(ent.obj, event)} :
       /\ ent' = [ent EXCEPT !.obj = hit]
       /\ lastCall' = [op |-> "projectile_impact", amount |-> event.damage,
                       prev |-> ent, sourceTeam |-> event.sourceTeam,
                       position |-> event.position, radius |-> event.radius]
       /\ testMap' =
            IF hit = ent.obj THEN testMap
            ELSE [testMap EXCEPT !.renderPending = TRUE,
                                 !.showDamageFlash = TRUE,
                                 !.flashTimeouts = @ + 1]
  /\ lastHandler' = "projectile_impact"
  /\ ArenaIdle

\* the setup effect of the Player runs again at a render of TestMap: its
\* dependencies initialPosition, onPositionChange, onHealthChange and
\* onDeath are objects TestMap creates at every render.  The cleanup
\* removes the mesh, the indicator and the health bar, and the effect
\* creates the player anew
PlayerSetupEffect(player, team) ==
  NewArenaPlayer(team, player.incarnation + 1)

\* the team effect of the Player: the colour of the mesh
PlayerTeamEffect(player, team) ==
  [player EXCEPT !.color = TeamColor(team)]

\* TestMap renders after a state or context update
ArenaRender ==
  /\ testMap.renderPending
  /\ ent.obj.incarnation < MaxIncarnations
  /\ testMap' = [testMap EXCEPT !.renderPending = FALSE]
  /\ ent' = [ent EXCEPT !.obj = PlayerSetupEffect(@, testMap.playerTeam)]
  /\ lastHandler' = "render"
  /\ UNCHANGED lastCall
  /\ ArenaIdle

\* setTimeout(() => setShowDamageFlash(false), 200)
FlashTimeout ==
  /\ testMap.flashTimeouts > 0
  /\ testMap' = [testMap EXCEPT !.flashTimeouts = @ - 1,
                                !.showDamageFlash = FALSE,
                                !.renderPending = @ \/ testMap.showDamageFlash]
  /\ lastHandler' = "flashTimeout"
  /\ UNCHANGED <<ent, lastCall>>
  /\ ArenaIdle

\* togglePlayerTeam and the render it causes: the setup effect, then the
\* team effect
ArenaTogglePlayerTeam ==
  /\ ent.obj.incarnation < MaxIncarnations
  /\ testMap' = [testMap EXCEPT !.playerTeam = OtherTeam(@),
                                !.renderPending = FALSE]
  /\ ent' = [ent EXCEPT !.obj =
               PlayerTeamEffect(PlayerSetupEffect(@, OtherTeam(testMap.playerTeam)),
                                OtherTeam(testMap.playerTeam))]
  /\ lastHandler' = "togglePlayerTeam"
  /\ UNCHANGED lastCall
  /\ ArenaIdle

NextArena ==
  \/ ArenaClick
  \/ ArenaFrame
  \/ ProjectileImpact
  \/ ArenaRender
  \/ FlashTimeout
  \/ ArenaTogglePlayerTeam

SpecArena == InitArena /\ [][NextArena]_vars

\* C29: at a projectile impact event the player takes damage if and only
\* if the impact is of the other team and the player is within the radius
\* of the impact, and the damage is that of the event in full, whatever the
\* distance: the health goes down by the damage, to 0 at the lowest, in
\* that case and stays as it is in every other
ImpactDamagesOpponentsInRadius ==
  [][ lastHandler' = "projectile_impact" =>
        ent'.obj.health =
          IF /\ lastCall'.sourceTeam # testMap.playerTeam
             /\ Abs(ent.obj.position - lastCall'.position) <= lastCall'.radius
          THEN Max(0, ent.obj.health - lastCall'.amount)
          ELSE ent.obj.health ]_vars

ImpactWitness ==
  /\ lastHandler = "projectile_impact"
  /\ lastCall.sourceTeam # testMap.playerTeam
  /\ Abs(lastCall.prev.obj.position - lastCall.position) = 3
  /\ lastCall.amount = 50
  /\ ent.obj.health = lastCall.prev.obj.health - 50

\* C30: a change of the team of the player changes the colour of the
\* avatar and of the indicator and leaves the state of the agent as it is:
\* health, position, targetPosition and isDestroyed are what they were
TeamChangeKeepsAgentState ==
  [][ lastHandler' = "togglePlayerTeam" =>
        /\ ent'.obj.color = TeamColor(testMap'.playerTeam)
        /\ ent'.obj.indicatorColor = TeamColor(testMap'.playerTeam)
        /\ ent'.obj.health = ent.obj.health
        /\ ent'.obj.position = ent.obj.position
        /\ ent'.obj.targetPosition = ent.obj.targetPosition
        /\ ent'.obj.isDestroyed = ent.obj.isDestroyed ]_vars

\* C31: a click whose ray does not meet the ground plane is ignored: the
\* targetPosition of the player is what it was and no target is set
ClickOffGroundIsIgnored ==
  [][ lastHandler' = "clickOffGround" =>
        character'.targetPosition = character.targetPosition ]_vars

(***************************************************************************)
(* The teardown of BaseScene: the cleanup of the mount effect, and what    *)
(* the mount effect scheduled.                                             *)
(***************************************************************************)
MaxTeardownFrames == 6      \* the frames that are followed

\* the cleanup of the mount effect: the listeners and the canvas are
\* removed, and the two intervals are cleared
SceneCleanup(t) ==
  [t EXCEPT !.active = @ \ {"spawnInterval", "timerInterval"},
            !.disposed = TRUE]

\* BaseScene is unmounted
SceneUnmount ==
  /\ ~timers.disposed
  /\ timers' = SceneCleanup(timers)
  /\ lastHandler' = "unmount"
  /\ UNCHANGED <<allyBase, enemyBase, gameState, minionsList, healthVars,
                 spawner, regVars, sceneVars>>

\* the wave interval fires
SpawnIntervalFires ==
  /\ "spawnInterval" \in timers.active
  /\ SpawnMinionWave

\* the countdown interval fires
TimerIntervalFires ==
  /\ "timerInterval" \in timers.active
  /\ timers' = [timers EXCEPT !.nextSpawnTime = Max(0, @ - 1)]
  /\ lastHandler' = "countdown"
  /\ UNCHANGED <<allyBase, enemyBase, gameState, minionsList, healthVars,
                 spawner, regVars, sceneVars>>

\* the host runs the frame callback, which requested itself again
AnimateFires ==
  /\ "animate" \in timers.active
  /\ frame < MaxTeardownFrames
  /\ RunFrame

NextTeardown ==
  \/ SceneUnmount
  \/ SpawnIntervalFires
  \/ TimerIntervalFires
  \/ AnimateFires

SpecTeardown == InitMatch /\ [][NextTeardown]_vars

\* C32: after the scene is torn down, nothing that it scheduled fires again:
\* no step is taken from a state in which the scene is disposed.
NothingFiresAfterTeardown ==
  [][ ~timers.disposed ]_vars

\* the scene as the minion updates of the coming frame find it
SceneAtMinionUpdates ==
  UpdateTowerAttacks(UpdateMovement(RunCallbacks(SceneNow, rafQueue, 1)))

ShotsAreFourScansApart ==
  [][ ( /\ towers[1].attackCooldown <= 0
        /\ towers'[1].attackCooldown = DetectCooldown
        /\ testMap'.shot.fired
        /\ testMap.shot.since # << >> )
      => testMap.shot.since[1] + 1 = DetectCooldown ]_vars

\* C35: once the player has respawned its respawnTimer is undefined and
\* stays so until its next death: a player that is shown and waits for no
\* respawn displays no countdown.
RespawnTimerStaysCleared ==
  (character.visible /\ ~character.respawnPending)
    => character.respawnTimer = << >>

(***************************************************************************)
(* The player walks into the enemy wave: a right click as the match        *)
(* starts, the frames, and the key h whenever the health is low.           *)
(***************************************************************************)
MaxSkirmishFrames == 1000
SkirmishTargets == {1900}   \* a point of the ground past the outer enemy tower
HealAt == 60                \* the user heals when the health is no more

\* onMouseClick with the right button, as the match starts
SkirmishClick ==
  /\ frame = 0
  /\ \E point \in SkirmishTargets :
       character' = [character EXCEPT
                       !.targetPosition = <<Max(-PlayableHalf, Min(PlayableHalf, point))>>]
  /\ lastHandler' = "click"
  /\ UNCHANGED <<allyBase, enemyBase, gameState, minionsList, towers, rafQueue, testMap,
                 frame, faults, healthVars, spawner, timers, regVars>>

\* key h, pressed between two frames when the health is low
SkirmishHeal ==
  /\ character.health <= HealAt
  /\ HealPlayer

SkirmishFrame ==
  /\ frame < MaxSkirmishFrames
  /\ character.health > HealAt
  /\ RunFrame

NextSkirmish == SkirmishClick \/ SkirmishHeal \/ SkirmishFrame

SpecSkirmish == InitScene /\ [][NextSkirmish]_vars

\* C36: a minion that holds a live, visible attackTarget fires at it each
\* time its cooldown is over, whatever the target is: a frame whose update
\* finds the minion alive, with such a target and no cooldown left, adds a
\* projectile of that minion.
MinionWithTargetFires ==
  [][ lastHandler' = "frame" =>
        \E moved \in {SceneAtMinionUpdates} :
          \A i \in DOMAIN moved.minions :
            MinionAttacks(moved, i) => FiredBy(rafQueue', i) # {} ]_vars

\* C37: a player that has no targetPosition stands still: a frame that finds
\* the character without a target leaves it where it was on the ground.
NoTargetNoMovement ==
  [][ (lastHandler' = "frame" /\ frame' = frame + 1
       /\ character.targetPosition = << >>)
      => character'.s = character.s ]_vars

(***************************************************************************)
(* updateMovement of BaseScene on its own: a character that has been given *)
(* a target, at each of the two step sizes, and the frames that move it.   *)
(***************************************************************************)
WalkDistances == 300..308   \* from the spawn point to the point clicked

\* the character after a right click on a point of the middle lane, with
\* keys.sprint as updateMovement will read it
WalkingCharacter(sprint, distance) ==
  [NewCharacter EXCEPT !.sprint = sprint,
                       !.targetPosition = <<NewCharacter.s + distance>>]

InitWalk ==
  /\ \E sprint \in BOOLEAN, distance \in WalkDistances :
       character = WalkingCharacter(sprint, distance)
  /\ allyBase = NewBase(FALSE)
  /\ enemyBase = NewBase(TRUE)
  /\ gameState = NewGameState
  /\ minionsList = << >>
  /\ lastHandler = "click"
  /\ towers = NewTowers
  /\ rafQueue = << >>
  /\ frame = 0
  /\ faults = NoFaults
  /\ testMap = NoTestMap
  /\ ent = NoEnt
  /\ lives = 1
  /\ lastCall = NoCall
  /\ spawner = NoSpawner
  /\ timers = SceneTimers
  /\ entities = << >>
  /\ lastQuery = NoQuery
  /\ NoCallers

\* updateMovement, called by a frame
WalkFrame ==
  /\ character' = UpdateMovement(SceneNow).character
  /\ lastHandler' = "updateMovement"
  /\ UNCHANGED <<allyBase, enemyBase, gameState, minionsList, towers, rafQueue, testMap,
                 frame, faults, healthVars, spawner, timers, regVars>>

NextWalk == WalkFrame

SpecWalk == InitWalk /\ [][NextWalk]_vars

\* the host calls animate for every frame
FairWalk == SpecWalk /\ WF_vars(WalkFrame)

MaxTowerObjects == 3        \* the towers the tower effect creates
MaxIntervals == 4           \* the calls of setInterval

\* the host has set no interval yet.  intervals[id] is the interval with
\* that id: the tower object whose detectEnemies it calls and whether it has
\* been cleared; held[k] is the id in userData.detectionInterval of tower
\* object k, 0 for none; ticked is the tower object that scanned last
NoIntervals ==
  [intervals |-> << >>, held |-> << >>, ticked |-> 0, disposed |-> FALSE]

\* the tower objects and the timers of the host, as one value
HostNow == [towers |-> towers, timers |-> timers]

\* tower.stopDetection of tower object k
StopDetection(h, k) ==
  IF h.towers[k].detectionInterval # Null
  THEN [h EXCEPT !.towers[k] = TowerStopDetection(@),
                 !.timers.intervals[h.timers.held[k]].cleared = TRUE,
                 !.timers.held[k] = 0]
  ELSE h

\* a startDetection that does not stop the interval it replaces
StartDetectionOverwrites(h, k) ==
  [h EXCEPT !.towers[k] = TowerStartDetection(@),
            !.timers.intervals = Append(@, [tower |-> k, cleared |-> FALSE]),
            !.timers.held[k] = Len(h.timers.intervals) + 1]

\* tower.startDetection of tower object k
StartDetection(h, k) ==
  With(StopDetection(h, k), LAMBDA stopped :
    [stopped EXCEPT
       !.towers[k] = TowerStartDetection(@),
       !.timers.intervals = Append(@, [tower |-> k, cleared |-> FALSE]),
       !.timers.held[k] = Len(stopped.timers.intervals) + 1])

\* createTower of the tower effect: a new tower object, towerRef.current
CreatedTower(h, team, range) ==
  [h EXCEPT !.towers = Append(@, NewTower(team, TestTowerHealth, range)),
            !.timers.held = Append(@, 0)]

\* the tower effect of TestMap, after the cleanup of its previous run: both
\* stop the tower towerRef.current holds, then a new tower is created and
\* started
TowerEffect(h, team, range) ==
  With(IF Len(h.towers) > 0
       THEN StopDetection(StopDetection(h, Len(h.towers)), Len(h.towers))
       ELSE h, LAMBDA stopped :
  With(CreatedTower(stopped, team, range), LAMBDA created :
    StartDetection(created, Len(created.towers))))

\* TestMap after its mount
InitIntervals ==
  /\ testMap = [NoTestMap EXCEPT !.mounted = TRUE, !.mounts = 1]
  /\ \E h \in {TowerEffect([towers |-> << >>, timers |-> NoIntervals],
                           NoTestMap.towerTeam, NoTestMap.towerRange)} :
       /\ towers = h.towers
       /\ timers = h.timers
  /\ lastHandler = "mount"
  /\ entities = << >>
  /\ lastQuery = NoQuery
  /\ NoCallers
  /\ ent = NoEnt
  /\ lives = 1
  /\ lastCall = NoCall
  /\ spawner = NoSpawner
  /\ allyBase = Null
  /\ enemyBase = Null
  /\ gameState = NewGameState
  /\ minionsList = << >>
  /\ character = Null
  /\ rafQueue = << >>
  /\ frame = 0
  /\ faults = NoFaults

IntervalsIdle ==
  UNCHANGED <<entities, callerVectors, aliases, healthVars, spawner, allyBase,
              enemyBase, gameState, minionsList, character, rafQueue, frame,
              faults>>

\* toggleTowerTeam: towerTeam changes and the tower effect runs again
ReplaceTower ==
  /\ Len(towers) < MaxTowerObjects
  /\ Len(timers.intervals) < MaxIntervals
  /\ testMap' = [testMap EXCEPT !.towerTeam = OtherTeam(@), !.shot = NoShot]
  /\ \E h \in {TowerEffect(HostNow, OtherTeam(testMap.towerTeam), testMap.towerRange)} :
       /\ towers' = h.towers
       /\ timers' = h.timers
  /\ lastHandler' = "toggleTowerTeam"
  /\ UNCHANGED <<lastQuery, lastRegistryCall>>
  /\ IntervalsIdle

\* a call of startDetection on a tower object
StartDetectionCall ==
  /\ Len(timers.intervals) < MaxIntervals
  /\ \E k \in DOMAIN towers :
     \E h \in {StartDetection(HostNow, k)} :
       /\ towers' = h.towers
       /\ timers' = h.timers
  /\ lastHandler' = "startDetection"
  /\ UNCHANGED <<testMap, lastQuery, lastRegistryCall>>
  /\ IntervalsIdle

\* a call of stopDetection on a tower object
StopDetectionCall ==
  /\ \E k \in DOMAIN towers :
     \E h \in {StopDetection(HostNow, k)} :
       /\ towers' = h.towers
       /\ timers' = h.timers
  /\ lastHandler' = "stopDetection"
  /\ UNCHANGED <<testMap, lastQuery, lastRegistryCall>>
  /\ IntervalsIdle

\* the host runs the callback of an interval that has not been cleared:
\* detectEnemies of the tower object that set it
IntervalFires ==
  /\ \E id \in DOMAIN timers.intervals :
       /\ ~timers.intervals[id].cleared
       /\ \E k \in {timers.intervals[id].tower} :
          \E result \in GetEntitiesInRange(TestTowerPosition, towers[k].shootingRange,
                                           towers[k].team) :
            /\ towers' = [towers EXCEPT ![k] = Detected(@, result)]
            /\ testMap' = [testMap EXCEPT !.shot =
                             [DetectedShot(towers[k], result) EXCEPT
                                !.since = SinceShot(towers[k], testMap.shot.since, result)]]
            /\ lastQuery' = [position |-> TestTowerPosition,
                             range |-> towers[k].shootingRange,
                             team |-> towers[k].team, result |-> result, called |-> TRUE]
            /\ timers' = [timers EXCEPT !.ticked = k]
  /\ lastRegistryCall' = RegistryCall("getEntitiesInRange", "none")
  /\ lastHandler' = "detectEnemies"
  /\ IntervalsIdle

NextIntervals ==
  \/ ReplaceTower
  \/ StartDetectionCall
  \/ StopDetectionCall
  \/ IntervalFires

SpecIntervals == InitIntervals /\ [][NextIntervals]_vars

\* the intervals of tower object k that have not been cleared
ActiveIntervals(k) ==
  {id \in DOMAIN timers.intervals :
     timers.intervals[id].tower = k /\ ~timers.intervals[id].cleared}

\* C40: whatever the calls of startDetection and stopDetection and the
\* replacements of the tower, a tower has at most one detection interval
\* that is active, which is the one it holds; a tower that holds none, as
\* after stopDetection, has none and its detectEnemies is not called; and a
\* second stopDetection changes nothing.
OneDetectionIntervalPerTower ==
  /\ [](\A k \in DOMAIN towers :
          /\ Cardinality(ActiveIntervals(k)) <= 1
          /\ ActiveIntervals(k) = {timers.held[k]} \ {0}
          /\ (towers[k].detectionInterval = Null) = (timers.held[k] = 0)
          /\ StopDetection(StopDetection(HostNow, k), k) = StopDetection(HostNow, k))
  /\ [][ lastHandler' = "detectEnemies" /\ timers'.ticked # 0
         => towers[timers'.ticked].detectionInterval # Null ]_vars

\* the tower has been replaced twice, four intervals have been set, three
\* of them are cleared, and the interval of the last tower has fired
DetectionIntervalWitness ==
  /\ Len(towers) = MaxTowerObjects
  /\ Len(timers.intervals) = 4
  /\ Cardinality({id \in DOMAIN timers.intervals : timers.intervals[id].cleared}) = 3
  /\ lastHandler = "detectEnemies"
  /\ timers.ticked = Len(towers)

====
